---- MODULE Spec2Model ----
(***************************************************************************)
(* Blog Content Extractor: the content script (src/content.js).            *)
(*                                                                         *)
(* A JavaScript string is a sequence of lexemes.  Every whitespace         *)
(* character and every character a regular expression or a test of the     *)
(* code looks at on its own ( | ( ) [ ] , # ) is a lexeme of its own; the  *)
(* other lexemes are single characters, or the fixed words the code tests  *)
(* for ("data:", "placeholder", ...) and runs of ordinary characters of a  *)
(* stated length (TokLen).  No lexeme straddles a boundary the code looks  *)
(* at, so startsWith / includes / trim / replace act on lexemes exactly as *)
(* the code acts on characters.                                            *)
(*                                                                         *)
(* A DOM node is a record: tag ("#text" for a text node), text, kids and   *)
(* p, its attributes and the properties the browser computes for it.  An   *)
(* absent attribute is the empty string: the code only ever tests          *)
(* attributes for truthiness, so null and '' behave alike.                 *)
(***************************************************************************)
EXTENDS Integers, Sequences, FiniteSets, TLC

VARIABLES
  page,             \* document.body of the tab
  docHead,          \* document.title and the meta elements of the tab
  pc,               \* where the Extract click handler of the popup stands
  options,          \* the options the handler read
  root,             \* the element the last pass transcoded
  raw,              \* what the transcoder returned for it
  body,             \* the document of the last pass before its header
  result,           \* the result the popup displays
  mode,             \* the popup's mode, 'full' or 'selection'
  disabled,         \* btnExtract.disabled
  status,           \* the status line of the popup
  sessions,         \* how many selection sessions the popup has started
  polls,            \* the sessions whose poll interval is set
  timers,           \* the sessions whose 30 s timer is pending, oldest first
  extractorOptions, \* window.__extractorOptions
  extractorResult,  \* window.__extractorResult
  overlays,         \* the selection overlays attached to the page, topmost last
  fn,               \* the helper a helper run applies
  arg,              \* its input
  outs              \* what its successive applications returned

vars ==
  <<page, docHead, pc, options, root, raw, body, result, mode, disabled, status,
    sessions, polls, timers, extractorOptions, extractorResult, overlays,
    fn, arg, outs>>

\* ---------------------------------------------------------------- strings

Empty == <<>>

IsWs(t) == t \in {" ", "\t", "\n", "\r"}

\* Lengths of the lexemes that stand for more than one character.
TokLen(t) ==
  CASE t = "W29" -> 29
    [] t = "W39" -> 39
    [] t = "W49" -> 49
    [] t = "W99" -> 99
    [] t = "W199" -> 199
    [] t = "data:" -> 5
    [] t = "image" -> 5
    [] t = "/gif;base64," -> 12
    [] t = "B1977" -> 1977
    [] t = "B1978" -> 1978
    [] t = "https:" -> 6
    [] t = "http:" -> 5
    [] t = "ftp:" -> 4
    [] t = "//" -> 2
    [] t = "javascript:" -> 11
    [] t = "site.example" -> 12
    [] t = "cdn.example" -> 11
    [] t = "spacer" -> 6
    [] t = "SPACER" -> 6
    [] t = "placeholder" -> 11
    [] t = ".gif" -> 4
    [] t = ".jpg" -> 4
    [] t = "title:" -> 6
    [] t = "cover_image:" -> 12
    [] t = "category:" -> 9
    [] t = "Chia" -> 4
    [] t = "se" -> 2
    [] t = "tags:" -> 5
    [] t = "author:" -> 7
    [] t = "Shop" -> 4
    [] t = "Deals" -> 5
    [] t = "published:" -> 10
    [] t = "true" -> 4
    [] t = "excerpt:" -> 8
    [] t = "date:" -> 5
    [] t = "YYYY-MM-DD" -> 10
    [] t = "Untitled" -> 8
    [] t = "url(" -> 4
    [] t = "none" -> 4
    [] t = "100w" -> 4
    [] t = "200w" -> 4
    [] t = "1x" -> 2
    [] t = "2x" -> 2
    [] t = "LABEL43" -> 43
    [] OTHER -> 1

RECURSIVE StrLenIn(_, _, _)
StrLenIn(s, lo, hi) ==
  IF lo > hi THEN 0
  ELSE IF lo = hi THEN TokLen(s[lo])
  ELSE StrLenIn(s, lo, (lo + hi) \div 2) + StrLenIn(s, (lo + hi) \div 2 + 1, hi)

StrLen(s) == StrLenIn(s, 1, Len(s))

\* The non-whitespace positions of s
Inked(s) == {i \in 1..Len(s) : ~IsWs(s[i])}

TrimLeft(s) ==
  IF Inked(s) = {} THEN <<>>
  ELSE SubSeq(s, CHOOSE i \in Inked(s) : \A j \in Inked(s) : i <= j, Len(s))

TrimRight(s) ==
  IF Inked(s) = {} THEN <<>>
  ELSE SubSeq(s, 1, CHOOSE i \in Inked(s) : \A j \in Inked(s) : j <= i)

\* String.prototype.trim
Trim(s) == TrimRight(TrimLeft(s))

\* String.prototype.startsWith, for a prefix made of whole lexemes
StartsWith(s, prefix) ==
  Len(s) >= Len(prefix) /\ SubSeq(s, 1, Len(prefix)) = prefix

\* String.prototype.toLowerCase, lexeme by lexeme
LowerTok(t) == IF t = "SPACER" THEN "spacer" ELSE t

ToLower(s) == [i \in 1..Len(s) |-> LowerTok(s[i])]

\* kw occurs inside lexeme t (the only overlaps among the words used here)
TokHas(t, kw) ==
  \/ t = kw
  \/ <<t, kw>> \in {<<"comments", "comment">>, <<"comment-section", "comment">>,
                    <<"header", "ad">>, <<"advertisement", "ad">>,
                    <<"google-ad", "ad">>, <<"navbar", "nav">>}

\* String.prototype.includes, for a word that lies inside one lexeme
Includes(s, kw) == \E i \in 1..Len(s) : TokHas(s[i], kw)

\* F(v), with v evaluated once: a result that is used more than once (the
\* string a call returns and the context it leaves) is computed one time
With(v, F(_)) == CHOOSE r \in {F(x) : x \in {v}} : TRUE

\* The concatenation of the strings ss[lo..hi]
RECURSIVE FlattenIn(_, _, _)
FlattenIn(ss, lo, hi) ==
  IF lo > hi THEN <<>>
  ELSE IF lo = hi THEN ss[lo]
  ELSE FlattenIn(ss, lo, (lo + hi) \div 2) \o FlattenIn(ss, (lo + hi) \div 2 + 1, hi)

Flatten(ss) == FlattenIn(ss, 1, Len(ss))

\* s.replace(/c/g, by) for a one-character pattern c and a string by
ReplaceAll(s, c, by) ==
  Flatten([i \in 1..Len(s) |-> IF s[i] = c THEN by ELSE <<s[i]>>])

\* s.split(sep) for a separator predicate over single lexemes: the pieces
\* between separators (always at least one piece).
RECURSIVE SplitFrom(_, _, _, _)
SplitFrom(s, i, cur, ws) ==
  IF i > Len(s) THEN <<cur>>
  ELSE IF (IF ws THEN IsWs(s[i]) ELSE s[i] = ",")
       THEN <<cur>> \o SplitFrom(s, i + 1, <<>>, ws)
       ELSE SplitFrom(s, i + 1, Append(cur, s[i]), ws)

SplitComma(s) == SplitFrom(s, 1, <<>>, FALSE)

\* part.trim().split(/\s+/): a run of whitespace is one separator.  The
\* argument is trimmed, so no piece is empty unless the string itself is.
SplitWs(s) ==
  LET pieces == SplitFrom(s, 1, <<>>, TRUE)
      full == SelectSeq(pieces, LAMBDA x : x # <<>>)
  IN  IF full = <<>> THEN << <<>> >> ELSE full

\* ------------------------------------------------------------------- URLs

\* window.location.href of the page
LocationHref == <<"https:", "//", "site.example", "/", "post">>

\* new URL(url, base) throws: the one unparsable shape among the lexemes
UrlThrows(u) == StartsWith(u, <<"ftp:", "//", "[">>)

\* new URL(url, window.location.href).href for a url that does not throw:
\* a url with a scheme stays as it is, a fragment is appended to the page's
\* address, a path is resolved against its origin or its directory; a space
\* is percent-encoded by the URL parser.
\* new URL(...).href altered: the parser percent-encodes '%' as well
UrlHrefEncodingPercent(u) ==
  LET enc == ReplaceAll(ReplaceAll(u, "%", <<"%", "2", "5">>), " ", <<"%", "2", "0">>)
  IN  IF Head(u) \in {"javascript:", "ftp:", "https:", "http:", "data:"} THEN enc
      ELSE IF Head(u) = "#" THEN LocationHref \o enc
      ELSE IF Head(u) = "/" THEN SubSeq(LocationHref, 1, 3) \o enc
      ELSE SubSeq(LocationHref, 1, 4) \o enc

UrlHref(u) ==
  LET enc == ReplaceAll(u, " ", <<"%", "2", "0">>)
  IN  IF Head(u) \in {"javascript:", "ftp:", "https:", "http:", "data:"} THEN enc
      ELSE IF Head(u) = "#" THEN LocationHref \o enc
      ELSE IF Head(u) = "/" THEN SubSeq(LocationHref, 1, 3) \o enc
      ELSE SubSeq(LocationHref, 1, 4) \o enc

resolveUrl(url) ==
  IF url = <<>> \/ Trim(url) = <<>> THEN <<>>
  ELSE LET u == Trim(url)
       IN  IF StartsWith(u, <<"data:">>) THEN u
           ELSE IF StartsWith(u, <<"//">>) THEN <<"https:">> \o u
           ELSE IF StartsWith(u, <<"http:", "//">>) \/ StartsWith(u, <<"https:", "//">>)
                THEN u
           ELSE IF UrlThrows(u) THEN u
           ELSE UrlHref(u)

\* Line 33 altered: a sixth replacement, of '%' by '%25', after the five
safeMarkdownUrlPercent(url) ==
  IF url = <<>> THEN <<>>
  ELSE ReplaceAll(ReplaceAll(ReplaceAll(ReplaceAll(ReplaceAll(ReplaceAll(
         url, "(", <<"%", "2", "8">>), ")", <<"%", "2", "9">>),
         " ", <<"%", "2", "0">>), "[", <<"%", "5", "B">>), "]", <<"%", "5", "D">>),
         "%", <<"%", "2", "5">>)

safeMarkdownUrl(url) ==
  IF url = <<>> THEN <<>>
  ELSE ReplaceAll(ReplaceAll(ReplaceAll(ReplaceAll(ReplaceAll(
         url, "(", <<"%", "2", "8">>), ")", <<"%", "2", "9">>),
         " ", <<"%", "2", "0">>), "[", <<"%", "5", "B">>), "]", <<"%", "5", "D">>)

PlaceholderWords ==
  {"placeholder", "spacer", "blank.gif", "transparent.png", "no-image",
   "noimage", "loading.gif", "loader."}

PlaceholderDataMax == 2000

isPlaceholderSrc(src) ==
  IF src = <<>> THEN TRUE
  ELSE LET lower == ToLower(src)
       IN  \/ \E w \in PlaceholderWords : Includes(lower, w)
           \/ StartsWith(lower, <<"data:", "image">>) /\ StrLen(src) < PlaceholderDataMax

\* The width a candidate's descriptor stands for (line 120): parseInt of an
\* 'Nw' descriptor, 1000 * parseFloat of an 'Nx' descriptor, else 0.
DescriptorWidth(d) ==
  CASE d = "100w" -> 100
    [] d = "200w" -> 200
    [] d = "1x" -> 1000
    [] d = "2x" -> 2000
    [] OTHER -> 0

\* Line 121 altered: w >= bestW, the last of the widest candidates wins
RECURSIVE SrcsetFromLastWins(_, _, _, _)
SrcsetFromLastWins(parts, i, bestUrl, bestW) ==
  IF i > Len(parts) THEN bestUrl
  ELSE LET segments == SplitWs(Trim(parts[i]))
           url == segments[1]
           descriptor == IF Len(segments) >= 2 THEN segments[2] ELSE <<>>
           w == IF Len(descriptor) = 1 THEN DescriptorWidth(descriptor[1]) ELSE 0
       IN  IF url = <<>> THEN SrcsetFromLastWins(parts, i + 1, bestUrl, bestW)
           ELSE IF w >= bestW THEN SrcsetFromLastWins(parts, i + 1, url, w)
           ELSE IF bestUrl = <<>> THEN SrcsetFromLastWins(parts, i + 1, url, bestW)
           ELSE SrcsetFromLastWins(parts, i + 1, bestUrl, bestW)

RECURSIVE SrcsetFrom(_, _, _, _)
SrcsetFrom(parts, i, bestUrl, bestW) ==
  IF i > Len(parts) THEN bestUrl
  ELSE LET segments == SplitWs(Trim(parts[i]))
           url == segments[1]
           descriptor == IF Len(segments) >= 2 THEN segments[2] ELSE <<>>
           w == IF Len(descriptor) = 1 THEN DescriptorWidth(descriptor[1]) ELSE 0
       IN  IF url = <<>> THEN SrcsetFrom(parts, i + 1, bestUrl, bestW)
           ELSE IF w > bestW THEN SrcsetFrom(parts, i + 1, url, w)
           ELSE IF bestUrl = <<>> THEN SrcsetFrom(parts, i + 1, url, bestW)
           ELSE SrcsetFrom(parts, i + 1, bestUrl, bestW)

parseSrcset(srcset) ==
  IF srcset = <<>> THEN <<>>
  ELSE SrcsetFrom(SplitComma(srcset), 1, <<>>, 0)

\* -------------------------------------------------------------------- DOM

NoProps == [x \in {} |-> <<>>]

\* A text node
Text(t) == [tag |-> "#text", text |-> t, kids |-> <<>>, p |-> NoProps]

\* An element; props holds the attributes that are present, and className
\* (cls), id, the computed style (css, bg) and currentSrc where they are set.
El(tag, props, kids) == [tag |-> tag, text |-> <<>>, kids |-> kids, p |-> props]

\* What querySelector returns when nothing matches
None == [tag |-> "#none", text |-> <<>>, kids |-> <<>>, p |-> NoProps]

IsElement(n) == n.tag \notin {"#text", "#none"}

\* el.getAttribute(name) / el.className / el.id / el.currentSrc
Prop(el, name) == IF name \in DOMAIN el.p THEN el.p[name] ELSE <<>>

\* The nodes below el, in document order
RECURSIVE Descendants(_)
Descendants(el) ==
  Flatten([i \in 1..Len(el.kids) |-> <<el.kids[i]>> \o Descendants(el.kids[i])])

\* el.querySelectorAll for a list of tag names
querySelectorAll(el, tags) == SelectSeq(Descendants(el), LAMBDA n : n.tag \in tags)

\* el.querySelector for a list of tag names
querySelector(el, tags) ==
  LET all == querySelectorAll(el, tags)
  IN  IF all = <<>> THEN None ELSE all[1]

\* el.querySelector(':scope > tag')
ScopeChild(el, tag) ==
  LET all == SelectSeq(el.kids, LAMBDA n : n.tag = tag)
  IN  IF all = <<>> THEN None ELSE all[1]

\* node.textContent
RECURSIVE textContent(_)
textContent(n) ==
  IF n.tag = "#text" THEN n.text
  ELSE Flatten([i \in 1..Len(n.kids) |-> textContent(n.kids[i])])

\* window.getComputedStyle(el): display none, visibility hidden or opacity 0
IsHiddenStyle(el) ==
  Prop(el, "css") \in {<<"display:none">>, <<"visibility:hidden">>, <<"opacity:0">>}

\* text.replace(/[ \t\r\n]+/g, ' ')
CollapseWs(s) ==
  Flatten([i \in 1..Len(s) |->
            IF ~IsWs(s[i]) THEN <<s[i]>>
            ELSE IF i > 1 /\ IsWs(s[i - 1]) THEN <<>> ELSE <<" ">>])

\* --------------------------------------------------------- asset selector

LazyAttrs ==
  <<"data-src", "data-lazy-src", "data-original", "data-url", "data-image",
    "data-img-src", "data-full-src", "data-echo", "data-lazy">>

\* img.src, the reflected attribute: '' when it is absent, else the address
\* it parses to (the attribute itself when it does not parse)
ImgSrcProperty(img) ==
  LET a == Trim(Prop(img, "src"))
  IN  IF Prop(img, "src") = <<>> THEN <<>>
      ELSE IF a = <<>> THEN LocationHref
      ELSE IF UrlThrows(a) THEN Prop(img, "src")
      ELSE UrlHref(a)

\* Step 5 of getImgSrc altered: the last resort also accepts a data: URI
FallbackSrcAnyScheme(img) ==
  LET src == Prop(img, "src")
  IN  IF src # <<>> THEN resolveUrl(src)
      ELSE IF ImgSrcProperty(img) # <<>> THEN resolveUrl(ImgSrcProperty(img))
      ELSE <<>>

\* 5. Fallback: accept src even if it might be placeholder (last resort)
FallbackSrc(img) ==
  LET src == Prop(img, "src")
  IN  IF src # <<>> /\ ~StartsWith(src, <<"data:">>) THEN resolveUrl(src)
      ELSE IF ImgSrcProperty(img) # <<>> /\ ~StartsWith(ImgSrcProperty(img), <<"data:">>)
           THEN resolveUrl(ImgSrcProperty(img))
      ELSE <<>>

getImgSrc(img) ==
  LET cur == Prop(img, "currentSrc")
      src == Prop(img, "src")
      lazy == SelectSeq(LazyAttrs,
                LAMBDA a : Prop(img, a) # <<>> /\ ~isPlaceholderSrc(Prop(img, a)))
      sets == SelectSeq(<<"srcset", "data-srcset">>,
                LAMBDA a : /\ Prop(img, a) # <<>>
                           /\ parseSrcset(Prop(img, a)) # <<>>
                           /\ ~isPlaceholderSrc(parseSrcset(Prop(img, a))))
  IN  IF cur # <<>> /\ ~isPlaceholderSrc(cur) THEN resolveUrl(cur)
      ELSE IF src # <<>> /\ ~isPlaceholderSrc(src) /\ ~StartsWith(src, <<"data:">>)
           THEN resolveUrl(src)
      ELSE IF lazy # <<>> THEN resolveUrl(Prop(img, lazy[1]))
      ELSE IF sets # <<>> THEN resolveUrl(parseSrcset(Prop(img, sets[1])))
      ELSE FallbackSrc(img)

\* bg.match(/url\(["']?([^"')]+)["']?\)/): the first url(...) of the value
RECURSIVE BgMatchFrom(_, _)
BgMatchFrom(bg, i) ==
  IF i > Len(bg) THEN <<>>
  ELSE IF bg[i] # "url(" THEN BgMatchFrom(bg, i + 1)
  ELSE LET isQ(k) == k <= Len(bg) /\ bg[k] \in {"\"", "'"}
           from == IF isQ(i + 1) THEN i + 2 ELSE i + 1
           stops == {k \in from..Len(bg) : bg[k] \in {"\"", "'", ")"}}
           to == IF stops = {} THEN Len(bg) + 1
                 ELSE CHOOSE k \in stops : \A m \in stops : k <= m
           close == IF isQ(to) THEN to + 1 ELSE to
       IN  IF to > from /\ close <= Len(bg) /\ bg[close] = ")"
           THEN SubSeq(bg, from, to - 1)
           ELSE BgMatchFrom(bg, i + 1)

getCssBackgroundImage(el) ==
  LET bg == Prop(el, "bg")
      url == Trim(BgMatchFrom(bg, 1))
  IN  IF bg = <<>> \/ bg = <<"none">> THEN <<>>
      ELSE IF BgMatchFrom(bg, 1) = <<>> THEN <<>>
      ELSE IF isPlaceholderSrc(url) THEN <<>>
      ELSE resolveUrl(url)

\* ------------------------------------------------------ markup transcoder

SKIP_TAGS ==
  {"script", "style", "noscript", "iframe", "svg", "nav", "footer", "aside",
   "button", "input", "select", "textarea", "form", "meta", "link", "head"}

NOISY_CLASSES ==
  {"sidebar", "related", "comments", "comment-section", "social-share",
   "advertisement", "google-ad", "widget", "popup", "modal", "newsletter",
   "subscription", "signup", "cookie", "breadcrumb", "pagination",
   "tag-cloud", "toc", "table-of-contents"}

NoisyMinText == 100

\* What a transcoding function gives back: the string it returns and the
\* Conversion Context as it leaves it
Res(s, ctx) == [s |-> s, ctx |-> ctx]

NL == <<"\n">>

NL2 == <<"\n", "\n">>

ImageWord == <<"i", "m", "a", "g", "e">>

\* `\n\n![alt](safe)\n\n`
ImageRef(alt, safe) ==
  NL2 \o <<"!", "[">> \o alt \o <<"]", "(">> \o safe \o <<")">> \o NL2

CountImage(ctx) == [ctx EXCEPT !.imageCount = @ + 1]

\* ctx.linkCount++ altered: the counter starts again at 1
CountLinkAfresh(ctx) == [ctx EXCEPT !.linkCount = 1]

CountLink(ctx) == [ctx EXCEPT !.linkCount = @ + 1]

\* Lines 262-266: the class + ' ' + id string holds a noisy keyword
IsNoisy(el) ==
  LET combined == ToLower(Prop(el, "cls")) \o <<" ">> \o ToLower(Prop(el, "id"))
  IN  \E c \in NOISY_CLASSES : Includes(combined, c)

\* Lines 268-271 altered: the container is dropped up to 100 characters
NoisyDropUpTo100(el) ==
  /\ IsNoisy(el)
  /\ StrLen(Trim(textContent(el))) <= NoisyMinText
  /\ querySelector(el, {"img"}) = None

\* Lines 268-271: a noisy container with very little text and no image
NoisyDrop(el) ==
  /\ IsNoisy(el)
  /\ StrLen(Trim(textContent(el))) < NoisyMinText
  /\ querySelector(el, {"img"}) = None

\* Lines 255-271: the element is filtered out before the switch on its tag
PreFiltered(el) ==
  \/ el.tag \in SKIP_TAGS
  \/ IsHiddenStyle(el)
  \/ NoisyDrop(el)

Digits == <<"1", "2", "3", "4", "5", "6", "7", "8", "9">>

\* `${counter}` for the counters the model reaches
NumStr(n) ==
  IF n <= 9 THEN <<Digits[n]>>
  ELSE <<Digits[n \div 10], IF n % 10 = 0 THEN "0" ELSE Digits[n % 10]>>

\* '  '.repeat(depth)
RECURSIVE Indent(_)
Indent(depth) == IF depth = 0 THEN <<>> ELSE <<" ", " ">> \o Indent(depth - 1)

\* lines.map(l => `> ${l}`).join('\n') over inner.split('\n')
Quote(inner) == <<">", " ">> \o ReplaceAll(inner, "\n", <<"\n", ">", " ">>)

HeadingLevel(tag) ==
  CASE tag = "h1" -> 1 [] tag = "h2" -> 2 [] tag = "h3" -> 3
    [] tag = "h4" -> 4 [] tag = "h5" -> 5 [] tag = "h6" -> 6

RECURSIVE Hashes(_)
Hashes(n) == IF n = 0 THEN <<>> ELSE <<"#">> \o Hashes(n - 1)

\* The opening and closing markup of the inline wrappers (lines 283-314)
InlineOpen(tag) ==
  CASE tag \in {"strong", "b"} -> <<"*", "*">>
    [] tag \in {"em", "i"} -> <<"*">>
    [] tag = "u" -> <<"<", "u", ">">>
    [] tag \in {"s", "del", "strike"} -> <<"~", "~">>
    [] tag = "mark" -> <<"=", "=">>
    [] tag = "sup" -> <<"<", "s", "u", "p", ">">>
    [] tag = "sub" -> <<"<", "s", "u", "b", ">">>

InlineClose(tag) ==
  CASE tag \in {"strong", "b"} -> <<"*", "*">>
    [] tag \in {"em", "i"} -> <<"*">>
    [] tag = "u" -> <<"<", "/", "u", ">">>
    [] tag \in {"s", "del", "strike"} -> <<"~", "~">>
    [] tag = "mark" -> <<"=", "=">>
    [] tag = "sup" -> <<"<", "/", "s", "u", "p", ">">>
    [] tag = "sub" -> <<"<", "/", "s", "u", "b", ">">>

InlineTags ==
  {"strong", "b", "em", "i", "u", "s", "del", "strike", "mark", "sup", "sub"}

HeadingTags == {"h1", "h2", "h3", "h4", "h5", "h6"}

RECURSIVE htmlToMarkdown(_, _)
RECURSIVE WalkChildren(_, _, _)
RECURSIVE processElement(_, _)
RECURSIVE processListItems(_, _, _, _)
RECURSIVE ListItemsFrom(_, _, _, _, _, _)
RECURSIVE ItemTextFrom(_, _, _)
RECURSIVE processTable(_, _)
RECURSIVE CellsFrom(_, _, _)
RECURSIVE TableRowsFrom(_, _, _)

\* The loop of htmlToMarkdown over element.childNodes from index i
WalkChildren(kids, i, ctx) ==
  IF i > Len(kids) THEN Res(<<>>, ctx)
  ELSE With(IF kids[i].tag = "#text"
            THEN Res(CollapseWs(kids[i].text), ctx)
            ELSE processElement(kids[i], ctx),
         LAMBDA r :
           With(WalkChildren(kids, i + 1, r.ctx),
             LAMBDA rest : Res(r.s \o rest.s, rest.ctx)))

htmlToMarkdown(element, ctx) ==
  IF element = None THEN Res(<<>>, ctx) ELSE WalkChildren(element.kids, 1, ctx)

\* htmlToMarkdown(el, ctx).trim()
InnerTrimmed(el, ctx) ==
  With(htmlToMarkdown(el, ctx), LAMBDA r : Res(Trim(r.s), r.ctx))

\* case 'a' (lines 330-347)
ProcessLink(el, ctx) ==
  LET href == Prop(el, "href")
  IN  IF ~ctx.includeLinks THEN htmlToMarkdown(el, ctx)
      ELSE IF href = <<>> \/ StartsWith(href, <<"#">>) \/ StartsWith(href, <<"javascript:">>)
           THEN htmlToMarkdown(el, ctx)
      ELSE With(InnerTrimmed(el, ctx),
             LAMBDA r :
               LET full == resolveUrl(href)
                   safe == safeMarkdownUrl(full)
                   text == IF r.s = <<>> THEN full ELSE r.s
                   counted == CountLink(r.ctx)
               IN  IF r.s = <<>> /\ querySelector(el, {"img"}) # None
                   THEN processElement(querySelector(el, {"img"}), counted)
                   ELSE Res(<<"[">> \o text \o <<"]", "(">> \o safe \o <<")">>, counted))

\* case 'img' (lines 350-358)
ProcessImg(el, ctx) ==
  LET src == getImgSrc(el)
      alt0 == IF Prop(el, "alt") # <<>> THEN Prop(el, "alt")
              ELSE IF Prop(el, "title") # <<>> THEN Prop(el, "title")
              ELSE ImageWord
  IN  IF ~ctx.includeImages THEN Res(<<>>, ctx)
      ELSE IF src = <<>> THEN Res(<<>>, ctx)
      ELSE Res(ImageRef(Trim(alt0), safeMarkdownUrl(src)), CountImage(ctx))

\* case 'picture' (lines 361-379)
ProcessPicture(el, ctx) ==
  LET img == querySelector(el, {"img"})
      source == querySelector(el, {"source"})
      srcset == IF Prop(source, "srcset") # <<>> THEN Prop(source, "srcset")
                ELSE Prop(source, "data-srcset")
      best == parseSrcset(srcset)
  IN  IF ~ctx.includeImages THEN Res(<<>>, ctx)
      ELSE IF img # None THEN processElement(img, ctx)
      ELSE IF source # None /\ srcset # <<>> /\ best # <<>>
           THEN Res(ImageRef(ImageWord, safeMarkdownUrl(resolveUrl(best))), CountImage(ctx))
      ELSE Res(<<>>, ctx)

\* case 'figure' (lines 382-408)
ProcessFigure(el, ctx) ==
  LET img == querySelector(el, {"img"})
      caption == querySelector(el, {"figcaption"})
      captionText == IF caption = None THEN <<>> ELSE Trim(textContent(caption))
      src == getImgSrc(img)
      alt == IF captionText # <<>> THEN captionText
             ELSE IF Prop(img, "alt") # <<>> THEN Prop(img, "alt")
             ELSE ImageWord
      bgSrc == getCssBackgroundImage(el)
  IN  IF ~ctx.includeImages THEN htmlToMarkdown(el, ctx)
      ELSE IF img # None /\ src # <<>>
           THEN Res(ImageRef(alt, safeMarkdownUrl(src))
                      \o (IF captionText # <<>>
                          THEN <<"*">> \o captionText \o <<"*">> \o NL2
                          ELSE <<>>),
                    CountImage(ctx))
      ELSE IF bgSrc # <<>>
           THEN Res(ImageRef(ImageWord, safeMarkdownUrl(bgSrc)), CountImage(ctx))
      ELSE htmlToMarkdown(el, ctx)

\* case 'div', 'section', 'article', 'main', 'header' (lines 478-494)
ProcessContainer(el, ctx) ==
  With(htmlToMarkdown(el, ctx),
    LAMBDA inner :
      LET bgSrc == getCssBackgroundImage(el)
      IN  IF /\ ctx.includeImages
             /\ querySelector(el, {"img"}) = None
             /\ querySelector(el, {"picture"}) = None
             /\ bgSrc # <<>>
          THEN Res(ImageRef(ImageWord, safeMarkdownUrl(bgSrc)) \o inner.s,
                   CountImage(inner.ctx))
          ELSE inner)

\* The switch of processElement (lines 273-500) for an element that passed
\* the filters.  The tags video, code, pre, kbd, abbr, dl, dt, dd, details
\* and summary do not occur in the pages of this model.
DispatchTag(el, ctx) ==
  LET tag == el.tag
  IN  CASE tag \in HeadingTags ->
             With(InnerTrimmed(el, ctx), LAMBDA inner :
               Res(NL2 \o Hashes(HeadingLevel(tag)) \o <<" ">> \o inner.s \o NL2,
                   inner.ctx))
        [] tag \in InlineTags ->
             With(InnerTrimmed(el, ctx), LAMBDA inner :
               Res(IF inner.s = <<>> THEN <<>>
                   ELSE InlineOpen(tag) \o inner.s \o InlineClose(tag), inner.ctx))
        [] tag = "p" ->
             With(InnerTrimmed(el, ctx), LAMBDA inner :
               Res(IF inner.s = <<>> THEN <<>> ELSE NL2 \o inner.s \o NL2, inner.ctx))
        [] tag = "br" -> Res(NL, ctx)
        [] tag = "hr" -> Res(NL2 \o <<"-", "-", "-">> \o NL2, ctx)
        [] tag = "a" -> ProcessLink(el, ctx)
        [] tag = "img" -> ProcessImg(el, ctx)
        [] tag = "picture" -> ProcessPicture(el, ctx)
        [] tag = "figure" -> ProcessFigure(el, ctx)
        [] tag \in {"ul", "ol"} ->
             With(processListItems(el, ctx, tag, 0), LAMBDA r :
               Res(NL2 \o r.s \o NL, r.ctx))
        [] tag = "li" -> htmlToMarkdown(el, ctx)
        [] tag = "blockquote" ->
             With(InnerTrimmed(el, ctx), LAMBDA inner :
               Res(NL2 \o Quote(inner.s) \o NL2, inner.ctx))
        [] tag = "table" ->
             IF ~ctx.includeTables THEN htmlToMarkdown(el, ctx)
             ELSE processTable(el, ctx)
        [] tag \in {"thead", "tbody", "tfoot", "tr", "td", "th"} ->
             htmlToMarkdown(el, ctx)
        [] tag \in {"div", "section", "article", "main", "header"} ->
             ProcessContainer(el, ctx)
        [] OTHER -> htmlToMarkdown(el, ctx)

processElement(el, ctx) ==
  IF PreFiltered(el) THEN Res(<<>>, ctx) ELSE DispatchTag(el, ctx)

\* ---------------------------------------------------------- list formatter

\* Lines 533-534 altered: the nested lists are formatted at the item's depth
NestedDepthSame(depth) == depth

\* processListItems(nested, ctx, type, depth + 1), lines 533-534
NestedDepth(depth) == depth + 1

\* The loop over child.childNodes (lines 516-525): text nodes as they are,
\* elements other than ul / ol through processElement
ItemTextFrom(nodes, i, ctx) ==
  IF i > Len(nodes) THEN Res(<<>>, ctx)
  ELSE With(IF nodes[i].tag = "#text" THEN Res(nodes[i].text, ctx)
            ELSE IF nodes[i].tag \notin {"ul", "ol"}
                 THEN processElement(nodes[i], ctx)
            ELSE Res(<<>>, ctx),
         LAMBDA r :
           With(ItemTextFrom(nodes, i + 1, r.ctx),
             LAMBDA rest : Res(r.s \o rest.s, rest.ctx)))

\* The loop over listEl.children from index i (lines 508-537)
ListItemsFrom(children, i, counter, ctx, type, depth) ==
  IF i > Len(children) THEN Res(<<>>, ctx)
  ELSE IF children[i].tag # "li"
       THEN ListItemsFrom(children, i + 1, counter, ctx, type, depth)
  ELSE LET child == children[i]
           prefix == IF type = "ol" THEN NumStr(counter) \o <<".", " ">>
                     ELSE <<"-", " ">>
           nestedUl == ScopeChild(child, "ul")
           nestedOl == ScopeChild(child, "ol")
       IN  With(ItemTextFrom(child.kids, 1, ctx), LAMBDA item :
           With(IF nestedUl # None
                THEN processListItems(nestedUl, item.ctx, "ul", NestedDepth(depth))
                ELSE Res(<<>>, item.ctx), LAMBDA ulRes :
           With(IF nestedOl # None
                THEN processListItems(nestedOl, ulRes.ctx, "ol", NestedDepth(depth))
                ELSE Res(<<>>, ulRes.ctx), LAMBDA olRes :
           With(ListItemsFrom(children, i + 1, counter + 1, olRes.ctx, type, depth),
             LAMBDA rest :
               Res(Indent(depth) \o prefix \o Trim(item.s) \o NL
                     \o ulRes.s \o olRes.s \o rest.s,
                   rest.ctx)))))

processListItems(listEl, ctx, type, depth) ==
  ListItemsFrom(SelectSeq(listEl.kids, IsElement), 1, 1, ctx, type, depth)

\* --------------------------------------------------------- table formatter

\* array.join(sep)
RECURSIVE Join(_, _)
Join(strs, sep) ==
  IF strs = <<>> THEN <<>>
  ELSE IF Len(strs) = 1 THEN strs[1]
  ELSE strs[1] \o sep \o Join(Tail(strs), sep)

\* htmlToMarkdown(cell, ctx).trim().replace(/\|/g, '\\|').replace(/\n/g, ' ')
\* for the cells from index i; gives the row and the context
CellsFrom(cells, i, ctx) ==
  IF i > Len(cells) THEN [row |-> <<>>, ctx |-> ctx]
  ELSE With(InnerTrimmed(cells[i], ctx), LAMBDA r :
       With(CellsFrom(cells, i + 1, r.ctx), LAMBDA rest :
         [row |-> <<ReplaceAll(ReplaceAll(r.s, "|", <<"\\", "|">>), "\n", <<" ">>)>>
                    \o rest.row,
          ctx |-> rest.ctx]))

\* Lines 568-570 altered: the first row becomes the header and stays a data row
PromoteKeepingRow(hasHeader, headerRow, rows) ==
  IF ~hasHeader /\ Len(rows) > 0
  THEN [headerRow |-> Head(rows), rows |-> rows]
  ELSE [headerRow |-> headerRow, rows |-> rows]

\* Lines 568-570: if (!hasHeader && rows.length > 0) headerRow = rows.shift()
PromoteFirstRow(hasHeader, headerRow, rows) ==
  IF ~hasHeader /\ Len(rows) > 0
  THEN [headerRow |-> Head(rows), rows |-> Tail(rows)]
  ELSE [headerRow |-> headerRow, rows |-> rows]

\* The forEach over tableEl.querySelectorAll('tbody tr, tr') from index idx
\* (0-based, as in the code); st is [headerRow, rows, hasHeader, ctx]
TableRowsFrom(trs, idx, st) ==
  IF idx >= Len(trs) THEN st
  ELSE LET tr == trs[idx + 1]
       IN  With(CellsFrom(querySelectorAll(tr, {"td", "th"}), 1, st.ctx), LAMBDA r :
             IF ~st.hasHeader /\ idx = 0 /\ querySelector(tr, {"th"}) # None
             THEN TableRowsFrom(trs, idx + 1,
                    [st EXCEPT !.headerRow = r.row, !.hasHeader = TRUE, !.ctx = r.ctx])
             ELSE TableRowsFrom(trs, idx + 1,
                    [st EXCEPT !.rows = Append(@, r.row), !.ctx = r.ctx]))

\* while (row.length < headerRow.length) row.push('')
RECURSIVE Pad(_, _)
Pad(row, n) == IF Len(row) < n THEN Pad(Append(row, <<>>), n) ELSE row

\* '| ' + row.join(' | ') + ' |\n'
TableLine(row) == <<"|", " ">> \o Join(row, <<" ", "|", " ">>) \o <<" ", "|", "\n">>

processTable(tableEl, ctx) ==
  LET thead == querySelector(tableEl, {"thead"})
  IN  With(IF thead # None
           THEN CellsFrom(querySelectorAll(thead, {"th", "td"}), 1, ctx)
           ELSE [row |-> <<>>, ctx |-> ctx], LAMBDA head :
      With(TableRowsFrom(querySelectorAll(tableEl, {"tr"}), 0,
             [headerRow |-> head.row, rows |-> <<>>,
              hasHeader |-> thead # None, ctx |-> head.ctx]), LAMBDA st :
      With(PromoteFirstRow(st.hasHeader, st.headerRow, st.rows), LAMBDA t :
        LET n == Len(t.headerRow)
        IN  IF n = 0 THEN Res(<<>>, st.ctx)
            ELSE Res(NL2 \o TableLine(t.headerRow)
                         \o TableLine([k \in 1..n |-> <<"-", "-", "-">>])
                         \o Flatten([k \in 1..Len(t.rows) |->
                                      TableLine(Pad(t.rows[k], n))])
                         \o NL2,
                     st.ctx))))

\* --------------------------------------------------------- content locator

\* An element of the document is known by its path from document.body: the
\* indexes of the child nodes to follow.  NoElement is JavaScript's null.
NoElement == <<0>>

RECURSIVE NodeAt(_, _)
NodeAt(n, path) == IF path = <<>> THEN n ELSE NodeAt(n.kids[Head(path)], Tail(path))

\* The paths of the elements below n, in document order
RECURSIVE ElementPaths(_)
ElementPaths(n) ==
  Flatten([i \in 1..Len(n.kids) |->
            IF IsElement(n.kids[i])
            THEN With(ElementPaths(n.kids[i]), LAMBDA below :
                   << <<i>> >> \o [k \in 1..Len(below) |-> <<i>> \o below[k]])
            ELSE <<>>])

\* el.classList
ClassList(el) == {Prop(el, "cls")[i] : i \in 1..Len(Prop(el, "cls"))} \ {" "}

\* A compound selector: tag, class, id and [attr="val"], "" where it names
\* none; anc is the class asked of an ancestor (descendant combinator)
Sel(tag, cls, id, attr, val, anc) ==
  [tag |-> tag, cls |-> cls, id |-> id, attr |-> attr, val |-> val, anc |-> anc]

Tag(t) == Sel(t, "", "", "", "", "")

Class(c) == Sel("", c, "", "", "", "")

Id(i) == Sel("", "", i, "", "", "")

Attr(a, v) == Sel("", "", "", a, v, "")

MatchesCompound(el, sel) ==
  /\ sel.tag = "" \/ el.tag = sel.tag
  /\ sel.cls = "" \/ sel.cls \in ClassList(el)
  /\ sel.id = "" \/ Prop(el, "id") = <<sel.id>>
  /\ sel.attr = "" \/ Prop(el, sel.attr) = <<sel.val>>

Matches(doc, path, sel) ==
  /\ MatchesCompound(NodeAt(doc, path), sel)
  /\ sel.anc = "" \/ \E k \in 1..(Len(path) - 1) :
                        sel.anc \in ClassList(NodeAt(doc, SubSeq(path, 1, k)))

\* document.querySelectorAll(sel), as paths
docQuerySelectorAll(doc, sel) ==
  SelectSeq(ElementPaths(doc), LAMBDA path : Matches(doc, path, sel))

\* document.querySelector(sel)
docQuerySelector(doc, sel) ==
  LET all == docQuerySelectorAll(doc, sel)
  IN  IF all = <<>> THEN NoElement ELSE all[1]

prioritySelectors ==
  << Sel("", "elementor-widget-container", "", "", "", "elementor-widget-theme-post-content"),
     Class("elementor-widget-theme-post-content"),
     Class("entry-content"),
     Class("post-content"),
     Class("article-body"),
     Sel("article", "post", "", "", "", ""),
     Class("article-content"),
     Class("post-body"),
     Attr("itemprop", "articleBody") >>

candidates ==
  << Tag("article"), Attr("role", "main"), Tag("main"),
     Class("post-content"), Class("entry-content"), Class("content-body"),
     Class("article-content"), Class("blog-post"), Class("single-post"),
     Class("page-content"), Id("content"), Id("main"), Class("main"),
     Class("content") >>

noisyClasses == <<"sidebar", "comment", "footer", "header", "nav", "widget", "toc", "ad">>

PriorityMinText == 200

ScoringMinText == 200

BroadMinText == 300

ParagraphWeight == 80

ImageWeight == 50

ArticleBonus == 1500

BroadParagraphWeight == 50

\* el.textContent.trim().length
TextLen(el) == StrLen(Trim(textContent(el)))

\* Lines 166-169 altered: any element matching the selector may qualify
PriorityHitAnyMatch(doc, sel) ==
  LET long == SelectSeq(docQuerySelectorAll(doc, sel),
                LAMBDA path : TextLen(NodeAt(doc, path)) > PriorityMinText)
  IN  IF long = <<>> THEN NoElement ELSE long[1]

\* Lines 166-169: the selector's first match, when its text is long enough
PriorityHit(doc, sel) ==
  LET found == docQuerySelector(doc, sel)
  IN  IF found # NoElement /\ TextLen(NodeAt(doc, found)) > PriorityMinText
      THEN found ELSE NoElement

\* Line 193 altered: a later element with the same score replaces the best
BetterOrEqual(score, maxScore) == score >= maxScore

\* Line 193: if (score > maxScore)
Better(score, maxScore) == score > maxScore

\* Lines 185-191
Score(el) ==
  TextLen(el) + Len(querySelectorAll(el, {"p"})) * ParagraphWeight
              + Len(querySelectorAll(el, {"img"})) * ImageWeight
              + (IF el.tag = "article" THEN ArticleBonus ELSE 0)

\* The elements the scoring loop meets, in the order it meets them: selector
\* by selector, each selector's matches in document order (lines 183-184)
ScoringOrder(doc) ==
  Flatten([k \in 1..Len(candidates) |-> docQuerySelectorAll(doc, candidates[k])])

\* The body of the scoring loop from the i-th element met (lines 185-193)
RECURSIVE ScoringFrom(_, _, _, _)
ScoringFrom(doc, els, i, st) ==
  IF i > Len(els) THEN st
  ELSE LET el == NodeAt(doc, els[i])
       IN  IF TextLen(el) < ScoringMinText THEN ScoringFrom(doc, els, i + 1, st)
           ELSE IF Better(Score(el), st.maxScore)
                THEN ScoringFrom(doc, els, i + 1, [best |-> els[i], maxScore |-> Score(el)])
           ELSE ScoringFrom(doc, els, i + 1, st)

\* el.offsetParent === null: the element has no layout box
\* or is position:fixed
OffsetParentNull(doc, path) ==
  \/ \E k \in 1..Len(path) :
       Prop(NodeAt(doc, SubSeq(path, 1, k)), "css") = <<"display:none">>
  \/ Prop(NodeAt(doc, path), "pos") = <<"fixed">>

\* Lines 206-207
BroadNoisy(el) ==
  LET cls == ToLower(Prop(el, "cls") \o <<" ">> \o Prop(el, "id"))
  IN  \E k \in 1..Len(noisyClasses) : Includes(cls, noisyClasses[k])

\* The body of the broad scan from the i-th element (lines 201-213)
RECURSIVE BroadFrom(_, _, _, _)
BroadFrom(doc, els, i, st) ==
  IF i > Len(els) THEN st
  ELSE LET el == NodeAt(doc, els[i])
           score == TextLen(el) + Len(querySelectorAll(el, {"p"})) * BroadParagraphWeight
       IN  IF OffsetParentNull(doc, els[i]) THEN BroadFrom(doc, els, i + 1, st)
           ELSE IF TextLen(el) < BroadMinText THEN BroadFrom(doc, els, i + 1, st)
           ELSE IF BroadNoisy(el) THEN BroadFrom(doc, els, i + 1, st)
           ELSE IF score > st.maxScore
                THEN BroadFrom(doc, els, i + 1, [best |-> els[i], maxScore |-> score])
           ELSE BroadFrom(doc, els, i + 1, st)

\* The priority tier (lines 165-170): the first selector with a hit
PriorityTier(doc) ==
  LET hits == SelectSeq(prioritySelectors, LAMBDA sel : PriorityHit(doc, sel) # NoElement)
  IN  IF hits = <<>> THEN NoElement ELSE PriorityHit(doc, hits[1])

\* The scoring tier (lines 180-195): best and maxScore after the loop
ScoringTier(doc) ==
  ScoringFrom(doc, ScoringOrder(doc), 1, [best |-> NoElement, maxScore |-> 0])

detectContentElement(doc) ==
  LET scored == ScoringTier(doc)
      broad == BroadFrom(doc,
                 SelectSeq(ElementPaths(doc),
                   LAMBDA path : NodeAt(doc, path).tag \in {"div", "section", "article", "main"}),
                 1, scored)
  IN  IF PriorityTier(doc) # NoElement THEN PriorityTier(doc)
      ELSE IF scored.best # NoElement THEN scored.best
      ELSE IF broad.best # NoElement THEN broad.best
      ELSE <<>>

\* ------------------------------------------------------ document assembler

IsLineEnd(s, i) == i > Len(s) \/ s[i] \in {"\n", "\r"}

IsLineStart(s, i) == i = 1 \/ s[i - 1] \in {"\n", "\r"}

\* .replace(/\n{4,}/g, '\n\n\n'): of a run of newlines the first three stay
CollapseNewlines(s) ==
  Flatten([i \in 1..Len(s) |->
            IF i > 3 /\ \A k \in (i - 3)..i : s[k] = "\n" THEN <<>> ELSE <<s[i]>>])

\* The end of the run of blanks that starts at index i: of [ \t] when
\* horizontal, else of \s
RECURSIVE RunEnd(_, _, _)
RunEnd(s, i, horizontal) ==
  IF i <= Len(s) /\ (IF horizontal THEN s[i] \in {" ", "\t"} ELSE IsWs(s[i]))
  THEN RunEnd(s, i + 1, horizontal) ELSE i

\* The start of the run of whitespace that ends at index i
RECURSIVE RunStart(_, _)
RunStart(s, i) == IF i > 1 /\ IsWs(s[i - 1]) THEN RunStart(s, i - 1) ELSE i

\* .replace(/[ \t]+$/gm, ''): a blank goes when its run of blanks reaches a
\* line end
StripTrailing(s) ==
  Flatten([i \in 1..Len(s) |->
            IF s[i] \in {" ", "\t"} /\ IsLineEnd(s, RunEnd(s, i, TRUE))
            THEN <<>> ELSE <<s[i]>>])

\* .replace(/^\s+$/gm, ''): a whitespace character goes when its run of
\* whitespace holds a line start at or before it and a line end after it
\* (\s+ is greedy and backtracks to the last such end)
BlankLines(s) ==
  Flatten([i \in 1..Len(s) |->
            IF /\ IsWs(s[i])
               /\ \E b \in RunStart(s, i)..i : IsLineStart(s, b)
               /\ \E e \in (i + 1)..RunEnd(s, i, FALSE) : IsLineEnd(s, e)
            THEN <<>> ELSE <<s[i]>>])

\* Lines 630-634
Cleanup(markdown) ==
  Trim(BlankLines(StripTrailing(CollapseNewlines(markdown))))

\* Lines 757-758, the cleanup of a selection click
CleanupSelected(markdown) ==
  Trim(StripTrailing(CollapseNewlines(markdown)))

\* str.slice(0, n), for a string whose lexemes end at character n
RECURSIVE Slice(_, _)
Slice(s, n) ==
  IF s = <<>> \/ TokLen(Head(s)) > n THEN <<>>
  ELSE <<Head(s)>> \o Slice(Tail(s), n - TokLen(Head(s)))

ExcerptMax == 250

\* .replace(/"/g, '\\"')
EscapeQuotes(s) == ReplaceAll(s, "\"", <<"\\", "\"">>)

\* The first h1 of the document, its text trimmed ('' when there is none)
FirstH1Text(doc) ==
  IF querySelector(doc, {"h1"}) = None THEN <<>>
  ELSE Trim(textContent(querySelector(doc, {"h1"})))

\* Lines 600-603
PageTitle(doc, hd) ==
  IF FirstH1Text(doc) # <<>> THEN FirstH1Text(doc)
  ELSE IF hd.ogTitle # <<>> THEN hd.ogTitle
  ELSE IF hd.title # <<>> THEN hd.title
  ELSE <<"Untitled">>

\* Lines 605-607
PageDescription(hd) ==
  IF hd.description # <<>> THEN hd.description ELSE hd.ogDescription

\* Lines 610-615
CoverImage(hd, contentEl) ==
  LET firstImg == querySelector(contentEl, {"img"})
      cover == IF hd.ogImage # <<>> THEN hd.ogImage
               ELSE IF firstImg # None THEN getImgSrc(firstImg)
               ELSE <<>>
  IN  IF cover # <<>> THEN resolveUrl(cover) ELSE <<>>

\* Lines 637-651
Frontmatter(doc, hd, contentEl) ==
  <<"-", "-", "-", "\n">>
  \o <<"title:", " ", "\"">> \o EscapeQuotes(PageTitle(doc, hd)) \o <<"\"", "\n">>
  \o (IF CoverImage(hd, contentEl) # <<>>
      THEN <<"cover_image:", " ">> \o CoverImage(hd, contentEl) \o NL ELSE <<>>)
  \o <<"category:", " ", "Chia", " ", "se", "\n">>
  \o <<"tags:", " ", "[", "]", "\n">>
  \o <<"author:", " ", "Shop", " ", "Deals", "\n">>
  \o <<"published:", " ", "true", "\n">>
  \o (IF PageDescription(hd) # <<>>
      THEN <<"excerpt:", " ", "\"">>
           \o EscapeQuotes(Slice(PageDescription(hd), ExcerptMax)) \o <<"\"", "\n">>
      ELSE <<>>)
  \o <<"date:", " ", "YYYY-MM-DD", "\n">>
  \o <<"-", "-", "-", "\n", "\n">>

\* Lines 636-651 altered: the header is built whatever the option
HeaderAlways(doc, hd, opts, contentEl) == Frontmatter(doc, hd, contentEl)

\* Lines 636-651: what stands before the content, the header when
\* includeFrontmatter is on and nothing otherwise
Header(doc, hd, opts, contentEl) ==
  IF opts.includeFrontmatter THEN Frontmatter(doc, hd, contentEl) ELSE <<>>

\* The Conversion Context of one pass (lines 619-625)
NewCtx(opts) ==
  [includeImages |-> opts.includeImages, includeLinks |-> opts.includeLinks,
   includeTables |-> opts.includeTables, imageCount |-> 0, linkCount |-> 0]

\* extractContent(options, targetElement).  target is the path of the
\* caller's element, NoElement when it passes none.  Gives the root chosen,
\* the transcoder's string before any cleanup, the cleaned document before
\* the header is prepended, and the Extraction Result.
extractContent(doc, hd, opts, target) ==
  With(IF target # NoElement THEN target ELSE detectContentElement(doc),
    LAMBDA contentPath :
      With(htmlToMarkdown(NodeAt(doc, contentPath), NewCtx(opts)), LAMBDA r :
      With(Cleanup(Trim(r.s)), LAMBDA markdown :
      With(Header(doc, hd, opts, NodeAt(doc, contentPath)) \o markdown, LAMBDA text :
        [root |-> contentPath,
         raw |-> r.s,
         body |-> markdown,
         result |-> [markdown |-> text,
                     title |-> PageTitle(doc, hd),
                     url |-> LocationHref,
                     imageCount |-> r.ctx.imageCount,
                     linkCount |-> r.ctx.linkCount,
                     charCount |-> StrLen(text)]]))))

\* --------------------------------------------------------- selection mode

SelectionMinText == 30

\* The three elements startSelectionMode appends to document.body: the
\* overlay, the highlight box (display:none until the first move) and the
\* label
OverlayNodes ==
  << El("div", [id |-> <<"__extractor_overlay__">>, pos |-> <<"fixed">>], <<>>),
     El("div", [css |-> <<"display:none">>, pos |-> <<"fixed">>], <<>>),
     El("div", [pos |-> <<"fixed">>], <<Text(<<"LABEL43">>)>>) >>

\* How many children of the body are the page's own, the overlays of n
\* sessions coming after them
OwnCount(doc, n) == Len(doc.kids) - Len(OverlayNodes) * n

\* The path of the overlay element of the k-th session attached
OverlayPath(doc, n, k) == <<OwnCount(doc, n) + Len(OverlayNodes) * (k - 1) + 1>>

\* The body without the elements of its last k sessions (cleanupSelection
\* of each)
Detached(doc, k) ==
  [doc EXCEPT !.kids = SubSeq(doc.kids, 1, Len(doc.kids) - Len(OverlayNodes) * k)]

\* The highlight box of the topmost of n sessions shown: display:block
Highlit(doc, n) ==
  [doc EXCEPT !.kids[OverlayPath(doc, n, n)[1] + 1] = El("div", [pos |-> <<"fixed">>], <<>>)]

\* document.elementFromPoint while the topmost overlay lets the pointer
\* through: an overlay below it covers the viewport, else the element of
\* the page under the pointer (NoElement for the body or the root element)
ElementFromPoint(doc, n, point) ==
  IF n >= 2 THEN OverlayPath(doc, n, n - 1) ELSE point

\* Lines 737-746 altered: the walk may end on document.body
RECURSIVE WalkUpToBody(_, _)
WalkUpToBody(doc, path) ==
  IF StrLen(Trim(textContent(NodeAt(doc, path)))) < SelectionMinText /\ Len(path) > 0
  THEN WalkUpToBody(doc, SubSeq(path, 1, Len(path) - 1))
  ELSE path

\* Lines 737-746: walk up while the element is too small and its parent is
\* not document.body
RECURSIVE WalkUp(_, _)
WalkUp(doc, path) ==
  IF StrLen(Trim(textContent(NodeAt(doc, path)))) < SelectionMinText /\ Len(path) > 1
  THEN WalkUp(doc, SubSeq(path, 1, Len(path) - 1))
  ELSE path

\* Lines 762-765
SelectionTitle(doc, hd, target) ==
  IF FirstH1Text(target) # <<>> THEN FirstH1Text(target)
  ELSE IF FirstH1Text(doc) # <<>> THEN FirstH1Text(doc)
  ELSE hd.title

\* Lines 766-769
SelectionCover(hd, target) ==
  LET img == querySelector(target, {"img"})
  IN  IF hd.ogImage # <<>> THEN hd.ogImage
      ELSE IF img # None THEN getImgSrc(img)
      ELSE <<>>

\* Lines 771-779
SelectionFrontmatter(doc, hd, target) ==
  <<"-", "-", "-", "\n">>
  \o <<"title:", " ", "\"">> \o EscapeQuotes(SelectionTitle(doc, hd, target)) \o <<"\"", "\n">>
  \o (IF SelectionCover(hd, target) # <<>>
      THEN <<"cover_image:", " ">> \o resolveUrl(SelectionCover(hd, target)) \o NL ELSE <<>>)
  \o <<"category:", " ", "Chia", " ", "se", "\n">>
  \o <<"tags:", " ", "[", "]", "\n">>
  \o <<"author:", " ", "Shop", " ", "Deals", "\n">>
  \o <<"published:", " ", "true", "\n">>
  \o <<"date:", " ", "YYYY-MM-DD", "\n">>
  \o <<"-", "-", "-", "\n", "\n">>

\* handleSelectionClick from line 737 on, for the hovered element el: the
\* target transcoded, the transcoder's string, the cleaned document before
\* the header, and the result stored
selectionClick(doc, hd, opts, el) ==
  With(WalkUp(doc, el), LAMBDA target :
    With(htmlToMarkdown(NodeAt(doc, target), NewCtx(opts)), LAMBDA r :
    With(CleanupSelected(Trim(r.s)), LAMBDA markdown :
    With((IF opts.includeFrontmatter
          THEN SelectionFrontmatter(doc, hd, NodeAt(doc, target)) ELSE <<>>)
         \o markdown, LAMBDA finalResult :
      [root |-> target,
       raw |-> r.s,
       body |-> markdown,
       result |-> [markdown |-> finalResult,
                   title |-> hd.title,
                   url |-> LocationHref,
                   imageCount |-> r.ctx.imageCount,
                   linkCount |-> r.ctx.linkCount,
                   charCount |-> StrLen(finalResult)]]))))

\* ------------------------------------------------------------------ pages
\* The documents the extraction is run on.  Each family is a bounded set of
\* DOM trees built around the constructs one part of the transcoder or of the
\* locator handles; a page is its document.body.

MaxRows == 2

MaxItems == 2

MaxCands == 2

\* Selection sessions one popup starts
MaxSessions == 2

\* Successive applications of a helper to its own result
MaxApply == 2

\* Characters in a string handed to safeMarkdownUrl
MaxChars == 3

\* Candidates in a srcset
MaxSet == 3

\* All sequences over S of length 0..n
SeqUpTo(S, n) == UNION {[1..k -> S] : k \in 0..n}

\* The attributes and properties that are set, from <<name, value>> pairs;
\* a pair with an empty value is left out
Props(pairs) ==
  LET keep == {i \in 1..Len(pairs) : pairs[i][2] # <<>>}
  IN  [name \in {pairs[i][1] : i \in keep} |->
         pairs[CHOOSE i \in keep : pairs[i][1] = name][2]]

Body(kids) == El("body", NoProps, kids)

Plain(tag, kids) == El(tag, NoProps, kids)

Labels == <<"A", "B", "C", "D", "E", "F", "G", "H", "J", "K", "L", "M", "N",
            "P", "Q", "R", "S", "T", "U", "V", "X", "Y", "Z">>

\* The tree with its k-th text node (in document order) holding the k-th
\* label, counting from next: every text of the page is then a distinct
\* character.  Gives the tree and the next free index.
RECURSIVE Relabel(_, _)
RECURSIVE RelabelKids(_, _)
RelabelKids(kids, next) ==
  IF kids = <<>> THEN [kids |-> <<>>, next |-> next]
  ELSE With(Relabel(Head(kids), next), LAMBDA h :
       With(RelabelKids(Tail(kids), h.next), LAMBDA t :
         [kids |-> <<h.node>> \o t.kids, next |-> t.next]))

Relabel(n, next) ==
  IF n.tag = "#text" THEN [node |-> Text(<<Labels[next]>>), next |-> next + 1]
  ELSE With(RelabelKids(n.kids, next), LAMBDA r :
         [node |-> [n EXCEPT !.kids = r.kids], next |-> r.next])

Labelled(n) == Relabel(n, 1).node

AnyText == Text(<<"?">>)

\* --- images

LinkUrl == <<"https:", "//", "site.example", "/", "a">>

RealUrl == <<"https:", "//", "cdn.example", "/", "p", ".jpg">>

RelativeUrl == <<"q", ".jpg">>

SpacerUrl == <<"/", "spacer", ".gif">>

UpperSpacerUrl == <<"SPACER", ".gif">>

\* data:image URIs of 1999 and of 2000 characters
SmallDataUrl == <<"data:", "image", "/gif;base64,", "B1977">>

BigDataUrl == <<"data:", "image", "/gif;base64,", "B1978">>

RealSrcset == <<"r", ".jpg", " ", "100w", ",", " ", "t", ".jpg", " ", "200w">>

SpacerSrcset == <<"spacer", ".gif", " ", "1x">>

Img(cur, src, dataSrc, srcset) ==
  El("img", Props(<< <<"currentSrc", cur>>, <<"src", src>>,
                     <<"data-src", dataSrc>>, <<"srcset", srcset>> >>), <<>>)

\* The img elements of the model: a current source and a src attribute, each
\* absent, a placeholder or real; a src attribute that is absent or a
\* placeholder with a lazy-load attribute and a candidate set, each absent, a
\* placeholder or real; and an img whose last lazy-load attribute or whose
\* data-srcset is the only source
Imgs ==
  { Img(cur, src, <<>>, <<>>) :
      cur \in {<<>>, RealUrl, SmallDataUrl},
      src \in {<<>>, RelativeUrl, SpacerUrl, UpperSpacerUrl, SmallDataUrl, BigDataUrl} }
  \cup { Img(<<>>, src, dataSrc, srcset) :
      src \in {<<>>, SpacerUrl, SmallDataUrl},
      dataSrc \in {<<>>, RealUrl, SpacerUrl},
      srcset \in {<<>>, RealSrcset, SpacerSrcset} }
  \cup { El("img", Props(<< <<"src", SpacerUrl>>, <<"data-lazy", RealUrl>> >>), <<>>),
         El("img", Props(<< <<"data-srcset", RealSrcset>>, <<"alt", <<"K">> >> >>), <<>>),
         El("img", Props(<< <<"data-srcset", SpacerSrcset>>, <<"title", <<"K">> >> >>), <<>>) }

RealImg == El("img", Props(<< <<"src", RealUrl>>, <<"alt", <<"K">> >> >>), <<>>)

\* An img met where the walk reaches it directly, in a figure (with and
\* without a caption), in a picture and as the only content of a link
ImgPages ==
  { Body(<<i>>) : i \in Imgs }
  \cup { Body(<<Plain("figure", <<i>>)>>) : i \in Imgs }
  \cup { Body(<<Plain("figure", <<i, Plain("figcaption", <<Text(<<"C">>)>>)>>)>>) : i \in Imgs }
  \cup { Body(<<Plain("picture", <<Plain("source", <<>>), i>>)>>) : i \in Imgs }
  \cup { Body(<<El("a", Props(<< <<"href", LinkUrl>> >>), <<i>>)>>) : i \in Imgs }
  \cup { Body(<<El("picture", NoProps,
                  <<El("source", Props(<< <<"srcset", ss>> >>), <<>>)>>)>>) :
           ss \in {<<>>, RealSrcset, SpacerSrcset} }

\* --- links

Hrefs ==
  { <<>>, <<"#", "s">>, <<"javascript:", "v">>, LinkUrl, <<"/", "d">>,
    <<"https:", "//", "site.example", "/", "(", "1", ")">> }

LinkContents ==
  { <<>>, <<Text(<<"L">>)>>, <<RealImg>>, <<Text(<<" ">>), RealImg>>,
    <<Plain("strong", <<Text(<<"L">>)>>), RealImg>>,
    <<El("img", NoProps, <<>>)>> }

Links ==
  { El("a", Props(<< <<"href", h>> >>), c) : h \in Hrefs, c \in LinkContents }

\* The links with an accepted target
GoodLinks == { El("a", Props(<< <<"href", LinkUrl>> >>), c) : c \in LinkContents }

\* Where a node may sit below the body
Wrappers ==
  {"p", "strong", "li", "nested-li", "th", "td", "caption", "nav", "hidden"}

Wrap(w, n) ==
  CASE w = "p" -> Plain("p", <<Text(<<"T">>), n>>)
    [] w = "strong" -> Plain("strong", <<n>>)
    [] w = "li" -> Plain("ul", <<Plain("li", <<n>>)>>)
    [] w = "nested-li" ->
         Plain("ol", <<Plain("li", <<Text(<<"T">>), Plain("ul", <<Plain("li", <<n>>)>>)>>)>>)
    [] w = "th" ->
         Plain("table", <<Plain("thead", <<Plain("tr", <<Plain("th", <<n>>)>>)>>),
                          Plain("tbody", <<Plain("tr", <<Plain("td", <<Text(<<"T">>)>>)>>)>>)>>)
    [] w = "td" ->
         Plain("table", <<Plain("tr", <<Plain("td", <<Text(<<"T">>)>>)>>),
                          Plain("tr", <<Plain("td", <<n>>)>>)>>)
    [] w = "caption" ->
         Plain("figure", <<RealImg, Plain("figcaption", <<n>>)>>)
    [] w = "nav" -> Plain("nav", <<n>>)
    [] w = "hidden" -> El("div", Props(<< <<"css", <<"display:none">> >> >>), <<n>>)

\* A link below the body, with every target; a link with an accepted target
\* in every wrapper; two links side by side
LinkPages ==
  { Body(<<a>>) : a \in Links }
  \cup { Body(<<Wrap(w, a)>>) : w \in Wrappers, a \in GoodLinks }
  \cup { Body(<<a, Text(<<" ">>),
                El("a", Props(<< <<"href", <<"/", "d">> >> >>), <<Text(<<"M">>)>>)>>) :
           a \in GoodLinks }

\* --- tables

Row(shape) ==
  Plain("tr", [i \in 1..Len(shape) |-> Plain(shape[i], <<AnyText>>)])

RowShapes == {<<>>, <<"td">>, <<"td", "td">>, <<"th", "td">>}

\* No thead, a thead of two header cells, a thead without a row
Theads ==
  { <<>>, <<Plain("thead", <<Row(<<"th", "th">>)>>)>>, <<Plain("thead", <<>>)>> }

Table(thead, rows) ==
  Plain("table", IF thead = <<>> THEN rows ELSE thead \o <<Plain("tbody", rows)>>)

\* A table of up to MaxRows rows, every cell holding its own label
TablePages ==
  { Body(<<Labelled(Table(h, [i \in 1..Len(shapes) |-> Row(shapes[i])]))>>) :
      h \in Theads, shapes \in SeqUpTo(RowShapes, MaxRows) }

\* --- lists

Leaf == Plain("li", <<AnyText>>)

Sub(tag) == Plain(tag, <<Leaf, Leaf>>)

ItemShapes == {"leaf", "text-last", "deep"}

Item(shape) ==
  Plain("li",
    CASE shape = "leaf" -> <<AnyText>>
      [] shape = "text-last" -> <<Sub("ol"), Sub("ul"), AnyText>>
      [] shape = "deep" ->
           <<AnyText,
             Plain("ul", <<Plain("li", <<AnyText, Plain("ol", <<Leaf>>),
                                          Plain("ul", <<Leaf>>)>>)>>),
             Plain("ol", <<Leaf>>)>>)

\* A list of 1..MaxItems items, every text holding its own label
ListPages ==
  { Body(<<Labelled(Plain(t, [i \in 1..Len(shapes) |-> Item(shapes[i])]))>>) :
      t \in {"ul", "ol"}, shapes \in SeqUpTo(ItemShapes, MaxItems) \ {<<>>} }

\* --- noisy containers

\* A text of 99, 100, 101, 199, 200, 201, 299 or 300 characters
Filler(n) ==
  CASE n = 99 -> <<"W99">>
    [] n = 100 -> <<"W99", "x">>
    [] n = 101 -> <<"W99", "x", "y">>
    [] n = 199 -> <<"W199">>
    [] n = 200 -> <<"W199", "x">>
    [] n = 201 -> <<"W199", "x", "y">>
    [] n = 299 -> <<"W199", "W99", "x">>
    [] n = 300 -> <<"W199", "W99", "x", "y">>

\* A class or an id with a noisy keyword, and a class without one
Marks ==
  { Props(<< <<"cls", <<"sidebar">> >> >>), Props(<< <<"id", <<"toc">> >> >>),
    Props(<< <<"cls", <<"post", " ", "comments">> >> >>),
    Props(<< <<"cls", <<"my">> >> >>) }

NoisyPages ==
  { Body(<<El(tag, m, <<Text(<<" ">> \o Filler(n))>> \o extra)>>) :
      tag \in {"div", "p"}, m \in Marks, n \in {99, 100, 101},
      extra \in {<<>>, <<RealImg>>} }

\* --- filtered elements

HiddenUrl == <<"https:", "//", "cdn.example", "/", "h", ".jpg">>

\* The ways an element is filtered out: three computed styles and a noisy class
Hides ==
  { <<"css", <<"display:none">> >>, <<"css", <<"visibility:hidden">> >>,
    <<"css", <<"opacity:0">> >>, <<"cls", <<"popup">> >> }

Contexts == {"p", "span", "li", "tr", "td", "th", "img", "figure", "picture", "link"}

\* A filtered element holding the text H, or a filtered img of source
\* HiddenUrl, beside visible content V
Hidden(c, hide) ==
  LET h == Props(<<hide>>)
      himg == El("img", Props(<< hide, <<"src", HiddenUrl>> >>), <<>>)
      v == Text(<<"V">>)
      x == Text(<<"H">>)
  IN  CASE c = "p" -> <<Plain("p", <<v>>), El("p", h, <<x>>)>>
        [] c = "span" -> <<Plain("p", <<v, El("span", h, <<x>>)>>)>>
        [] c = "li" -> <<Plain("ul", <<Plain("li", <<v>>), El("li", h, <<x>>)>>)>>
        [] c = "tr" ->
             <<Plain("table", <<Plain("tr", <<Plain("td", <<v>>)>>),
                                El("tr", h, <<Plain("td", <<x>>)>>)>>)>>
        [] c = "td" ->
             <<Plain("table", <<Plain("tr", <<Plain("td", <<v>>)>>),
                                Plain("tr", <<El("td", h, <<x>>)>>)>>)>>
        [] c = "th" ->
             <<Plain("table", <<Plain("tr", <<Plain("th", <<v>>), El("th", h, <<x>>)>>),
                                Plain("tr", <<Plain("td", <<v>>)>>)>>)>>
        [] c = "img" -> <<Plain("p", <<v>>), himg>>
        [] c = "figure" -> <<Plain("p", <<v>>), Plain("figure", <<himg>>)>>
        [] c = "picture" -> <<Plain("p", <<v>>), Plain("picture", <<himg>>)>>
        [] c = "link" ->
             <<Plain("p", <<v>>), El("a", Props(<< <<"href", LinkUrl>> >>), <<himg>>)>>

HiddenPages == { Body(Hidden(c, hide)) : c \in Contexts, hide \in Hides }

\* --- candidates for the content root

\* tag, class, role and text length of a candidate
Shapes ==
  { <<"div", "entry-content", "", 200>>,
    <<"div", "entry-content", "", 201>>, <<"article", "entry-content", "", 200>>,
    <<"div", "post-content", "", 201>>, <<"main", "", "", 201>>,
    <<"div", "", "main", 201>>, <<"div", "", "", 300>> }

Candidate(shape) ==
  El(shape[1],
     Props(<< <<"cls", IF shape[2] = "" THEN <<>> ELSE <<shape[2]>> >>,
              <<"role", IF shape[3] = "" THEN <<>> ELSE <<shape[3]>> >> >>),
     <<Text(Filler(shape[4]))>>)

\* 1..MaxCands candidates side by side below the body
LocatorPages ==
  { Body([i \in 1..Len(shapes) |-> Candidate(shapes[i])]) :
      shapes \in SeqUpTo(Shapes, MaxCands) \ {<<>>} }

Pages ==
  ImgPages \cup LinkPages \cup TablePages \cup ListPages \cup NoisyPages
    \cup HiddenPages \cup LocatorPages

PlainHead ==
  [title |-> <<"D">>, ogTitle |-> <<>>, description |-> <<>>,
   ogDescription |-> <<>>, ogImage |-> <<>>]

Heads ==
  { PlainHead,
    [title |-> <<"D">>, ogTitle |-> <<"O", "\"">>, description |-> <<"W199", "W49", "x", "y", "z">>,
     ogDescription |-> <<"G">>, ogImage |-> <<"//", "cdn.example", "/", "o", ".jpg">>] }

Options ==
  [includeImages : BOOLEAN, includeLinks : BOOLEAN,
   includeTables : BOOLEAN, includeFrontmatter : BOOLEAN]

NoOptions ==
  [includeImages |-> FALSE, includeLinks |-> FALSE,
   includeTables |-> FALSE, includeFrontmatter |-> FALSE]

\* window.__extractorOptions before any selection: undefined, which the
\* selection click reads as every option on (options.x !== false)
DefaultOptions ==
  [includeImages |-> TRUE, includeLinks |-> TRUE,
   includeTables |-> TRUE, includeFrontmatter |-> TRUE]

NoResult ==
  [markdown |-> <<>>, title |-> <<>>, url |-> <<>>,
   imageCount |-> 0, linkCount |-> 0, charCount |-> 0]

\* --- pages of the selection sessions

Para(text) == Plain("p", <<Text(text)>>)

\* Two short paragraphs with a blank between them, in a short div
ShortPage == Body(<<Plain("div", <<Para(<<"A">>), Text(<<" ">>), Para(<<"B">>)>>)>>)

\* A paragraph of 29 and one of 30 characters in a section in a div
LongPage ==
  Body(<<Plain("div", <<Plain("section", <<Para(<<"W29">>), Para(<<"W29", "x">>)>>)>>)>>)

\* Horizontal rules before and between two paragraphs
RulePage ==
  Body(<<Plain("hr", <<>>), Para(<<"K">>), Plain("hr", <<>>), Para(<<"L">>)>>)

\* A list whose items hold paragraphs and a line break
BlockListPage ==
  Body(<<Plain("ol",
           <<Plain("li", <<Para(<<"A">>), Para(<<"B">>)>>),
             Plain("li", <<Text(<<"C">>), Plain("br", <<>>), Text(<<"D">>)>>)>>)>>)

\* An image below the body, and a div with a link, an image and a figure
MediaPage ==
  Body(<<RealImg,
         Plain("div",
           <<El("a", Props(<< <<"href", LinkUrl>> >>), <<Text(<<"E">>)>>),
             RealImg,
             Plain("figure", <<RealImg, Plain("figcaption", <<Text(<<"F">>)>>)>>)>>)>>)

SelPages == {ShortPage, LongPage, RulePage, BlockListPage, MediaPage}

\* A table whose thead has no cell and whose only row holds an image
EmptyHeadTablePage ==
  Body(<<Plain("table",
           <<Plain("thead", <<>>),
             Plain("tbody", <<Plain("tr", <<Plain("td", <<RealImg>>)>>)>>)>>)>>)

\* The pages of the full-mode passes
PassPages == SelPages \cup {EmptyHeadTablePage}

\* Every option on, and the same without the header
SelOptions == {DefaultOptions, [DefaultOptions EXCEPT !.includeFrontmatter = FALSE]}

\* Where the pointer may be: on an element of the page, or on none
HoverPoints(doc, n) ==
  LET own == ElementPaths(Detached(doc, n))
  IN  {own[i] : i \in 1..Len(own)} \cup {NoElement}

\* --- inputs of the helper runs

\* URLs of every kind resolveUrl tells apart, bare and padded with whitespace
UrlCores ==
  { <<>>,
    <<"data:", "image", "/gif;base64,", "x">>,
    <<"//", "cdn.example", "/", "p">>,
    <<"http:", "//", "site.example", "/", "a", " ", "b">>,
    LinkUrl,
    RelativeUrl,
    <<"/", "q">>,
    <<"#", "f">>,
    <<"a", " ", "b">>,
    <<"javascript:", "x">>,
    <<"ftp:", "//", "h", "/", "a", " ", "b">>,
    <<"ftp:", "//", "[">>,
    <<"ftp:", "//", "[", " ", "x">> }

UrlInputs ==
  { pre \o u \o post :
      pre \in {<<>>, <<" ">>, <<"\n", "\t">>}, u \in UrlCores, post \in {<<>>, <<" ">>} }

\* The characters safeMarkdownUrl replaces, '%' and two digits of a percent code
EscapeInputs == SeqUpTo({"(", ")", " ", "[", "]", "%", "2", "8"}, MaxChars)

\* What a candidate of a srcset holds after its URL: nothing, a width, a
\* density, or a word that is neither; "empty" is a candidate without a URL
CandidateKinds == {"empty", "none", "100w", "200w", "1x", "2x", "z"}

\* The URL of the i-th candidate
CandidateUrl(i) == <<Labels[i]>>

SrcsetCandidate(kind, i) ==
  CASE kind = "empty" -> <<>>
    [] kind = "none" -> CandidateUrl(i)
    [] OTHER -> CandidateUrl(i) \o <<" ", kind>>

\* The srcset attribute of the candidates, separated by ', '
SrcsetText(kinds) ==
  Flatten([i \in 1..Len(kinds) |->
            (IF i = 1 THEN <<>> ELSE <<",", " ">>) \o SrcsetCandidate(kinds[i], i)])

SrcsetInputs == SeqUpTo(CandidateKinds, MaxSet) \ {<<>>}

\* An input: the string, and for a srcset the candidates it was written from
HelperInputs ==
  { [fn |-> "resolveUrl", text |-> u, kinds |-> <<>>] : u \in UrlInputs }
    \cup { [fn |-> "safeMarkdownUrl", text |-> u, kinds |-> <<>>] : u \in EscapeInputs }
    \cup { [fn |-> "parseSrcset", text |-> SrcsetText(k), kinds |-> k] : k \in SrcsetInputs }

\* ------------------------------------------------------------ the machine

\* window.__extractorResult: null, the marker { cancelled: true }, or the
\* result of a selection click.  set tells null (falsy) from an object
\* (truthy); cancelled is the marker's flag, undefined in a result.
NoMarker == [set |-> FALSE, cancelled |-> FALSE, doc |-> NoResult]

CancelMarker == [set |-> TRUE, cancelled |-> TRUE, doc |-> NoResult]

\* Line 783 altered: an empty document is stored as a cancellation
ExtractedUnlessEmpty(r) == [set |-> TRUE, cancelled |-> r.markdown = <<>>, doc |-> r]

Extracted(r) == [set |-> TRUE, cancelled |-> FALSE, doc |-> r]

popupVars == <<pc, options, result, mode, disabled, status, sessions, polls, timers>>

passVars == <<root, raw, body>>

tabVars == <<page, extractorOptions, extractorResult, overlays>>

helperVars == <<fn, arg, outs>>

\* The popup has just been opened on a tab where the content script never ran
Fresh ==
  /\ pc = "idle"
  /\ options = NoOptions
  /\ root = NoElement
  /\ raw = <<>>
  /\ body = <<>>
  /\ result = NoResult
  /\ mode = "full"
  /\ disabled = FALSE
  /\ status = "hidden"
  /\ sessions = 0
  /\ polls = {}
  /\ timers = <<>>
  /\ extractorOptions = DefaultOptions
  /\ extractorResult = NoMarker
  /\ overlays = <<>>

\* No helper run
NoHelper ==
  /\ fn = "none"
  /\ arg = [fn |-> "none", text |-> <<>>, kinds |-> <<>>]
  /\ outs = <<>>

\* The popup is open on a page; nothing has run yet.  The pages with links
\* come with both document heads, the others with the plain one.
Init ==
  /\ page \in Pages
  /\ docHead \in Heads
  /\ docHead.ogTitle # <<>> => page \in LinkPages
  /\ Fresh
  /\ NoHelper

\* A click on the Extract button (a disabled button gets no click): the
\* options are read, the button is disabled, the status says loading and the
\* last result is hidden.  A further selection session is started only
\* below MaxSessions.
Click(opts) ==
  /\ pc \in {"idle", "done"}
  /\ ~disabled
  /\ mode = "selection" => sessions < MaxSessions
  /\ pc' = "extracting"
  /\ options' = opts
  /\ disabled' = TRUE
  /\ status' = "loading"
  /\ root' = NoElement
  /\ raw' = <<>>
  /\ body' = <<>>
  /\ result' = NoResult
  /\ UNCHANGED <<docHead, mode, sessions, polls, timers>>
  /\ UNCHANGED tabVars
  /\ UNCHANGED helperVars

\* Full mode: the injected call window.__extractContent(opts), the display
\* of what it returns, and the button enabled again
Extract ==
  /\ pc = "extracting"
  /\ mode = "full"
  /\ \E x \in {extractContent(page, docHead, options, NoElement)} :
       /\ pc' = "done"
       /\ root' = x.root
       /\ raw' = x.raw
       /\ body' = x.body
       /\ result' = x.result
  /\ disabled' = FALSE
  /\ status' = "shown"
  /\ UNCHANGED <<docHead, options, mode, sessions, polls, timers>>
  /\ UNCHANGED tabVars
  /\ UNCHANGED helperVars

Next ==
  \/ \E opts \in Options : Click(opts)
  \/ Extract

Spec == Init /\ [][Next]_vars

\* --- the popup and the page in selection mode

\* Selection mode, lines 125-165: the content script is injected again (a
\* new closure, whose overlay handles are null), the options are stored, the
\* polled location is cleared and startSelectionMode attaches its overlay;
\* the popup starts the poll and the 30 s timer of the session and the
\* handler returns with the button still disabled
StartSelection ==
  /\ pc = "extracting"
  /\ mode = "selection"
  /\ pc' = "idle"
  /\ extractorOptions' = options
  /\ extractorResult' = NoMarker
  /\ page' = [page EXCEPT !.kids = @ \o OverlayNodes]
  /\ overlays' = Append(overlays, [cur |-> NoElement])
  /\ sessions' = sessions + 1
  /\ polls' = polls \cup {sessions + 1}
  /\ timers' = Append(timers, sessions + 1)
  /\ status' = "selecting"
  /\ UNCHANGED <<docHead, options, result, mode, disabled>>
  /\ UNCHANGED passVars
  /\ UNCHANGED helperVars

\* handleSelectionMove of the topmost overlay, the pointer being at point
MouseMove(point) ==
  /\ overlays # <<>>
  /\ LET n == Len(overlays)
         el == ElementFromPoint(page, n, point)
     IN  IF el # NoElement /\ el # <<>>
         THEN /\ page' = Highlit(page, n)
              /\ overlays' = [overlays EXCEPT ![n].cur = el]
         ELSE UNCHANGED <<page, overlays>>
  /\ UNCHANGED <<docHead, extractorOptions, extractorResult>>
  /\ UNCHANGED popupVars
  /\ UNCHANGED passVars
  /\ UNCHANGED helperVars

\* handleSelectionClick of the topmost overlay
ClickOverlay ==
  /\ overlays # <<>>
  /\ LET el == overlays[Len(overlays)].cur
     IN  /\ page' = Detached(page, 1)
         /\ overlays' = SubSeq(overlays, 1, Len(overlays) - 1)
         /\ IF el = NoElement
            THEN /\ extractorResult' = CancelMarker
                 /\ UNCHANGED passVars
            ELSE \E x \in {selectionClick(Detached(page, 1), docHead, extractorOptions, el)} :
                   /\ extractorResult' = Extracted(x.result)
                   /\ root' = x.root
                   /\ raw' = x.raw
                   /\ body' = x.body
  /\ UNCHANGED <<docHead, extractorOptions>>
  /\ UNCHANGED popupVars
  /\ UNCHANGED helperVars

\* The Escape key: handleSelectionEscape of every closure whose keydown
\* listener is attached, each detaching its own overlay
EscapeKey ==
  /\ overlays # <<>>
  /\ page' = Detached(page, Len(overlays))
  /\ overlays' = <<>>
  /\ extractorResult' = CancelMarker
  /\ UNCHANGED <<docHead, extractorOptions>>
  /\ UNCHANGED popupVars
  /\ UNCHANGED passVars
  /\ UNCHANGED helperVars

\* A tick of the poll of session s, lines 139-162; fails when the script
\* call throws
PollTick(s, fails) ==
  /\ s \in polls
  /\ IF fails
     THEN /\ polls' = polls \ {s}
          /\ status' = "error"
          /\ disabled' = FALSE
          /\ UNCHANGED result
     ELSE IF extractorResult.set
     THEN /\ polls' = polls \ {s}
          /\ disabled' = FALSE
          /\ IF extractorResult.cancelled
             THEN status' = "cancelled" /\ UNCHANGED result
             ELSE status' = "shown" /\ result' = extractorResult.doc
     ELSE UNCHANGED <<polls, status, disabled, result>>
  /\ UNCHANGED <<docHead, pc, options, mode, sessions, timers>>
  /\ UNCHANGED passVars
  /\ UNCHANGED tabVars
  /\ UNCHANGED helperVars

\* The 30 s timer of the oldest session still pending, line 164
Timeout ==
  /\ timers # <<>>
  /\ polls' = polls \ {Head(timers)}
  /\ timers' = Tail(timers)
  /\ disabled' = FALSE
  /\ UNCHANGED <<docHead, pc, options, result, mode, status, sessions>>
  /\ UNCHANGED passVars
  /\ UNCHANGED tabVars
  /\ UNCHANGED helperVars

\* The popup is open on a page and selection mode has been chosen
\* (btnSelection click)
SelInit ==
  /\ page \in SelPages
  /\ docHead = PlainHead
  /\ pc = "idle"
  /\ options = NoOptions
  /\ root = NoElement
  /\ raw = <<>>
  /\ body = <<>>
  /\ result = NoResult
  /\ mode = "selection"
  /\ disabled = FALSE
  /\ status = "hidden"
  /\ sessions = 0
  /\ polls = {}
  /\ timers = <<>>
  /\ extractorOptions = DefaultOptions
  /\ extractorResult = NoMarker
  /\ overlays = <<>>
  /\ NoHelper

SelNext ==
  \/ \E opts \in SelOptions : Click(opts)
  \/ StartSelection
  \/ \E point \in HoverPoints(page, Len(overlays)) : MouseMove(point)
  \/ ClickOverlay
  \/ EscapeKey
  \/ \E s \in polls, fails \in BOOLEAN : PollTick(s, fails)
  \/ Timeout

SelSpec == SelInit /\ [][SelNext]_vars

\* --- full-mode passes over the pages of the selection sessions

PassInit ==
  /\ page \in PassPages
  /\ docHead = PlainHead
  /\ Fresh
  /\ NoHelper

PassSpec == PassInit /\ [][Next]_vars

\* --- helper runs: one helper applied to one input, then to its own result

\* The string the next application takes
Operand == IF outs = <<>> THEN arg.text ELSE outs[Len(outs)]

HelperInit ==
  /\ page = Body(<<>>)
  /\ docHead = PlainHead
  /\ Fresh
  /\ arg \in HelperInputs
  /\ fn = arg.fn
  /\ outs = <<>>

ApplyResolveUrl ==
  /\ fn = "resolveUrl"
  /\ Len(outs) < MaxApply
  /\ outs' = Append(outs, resolveUrl(Operand))
  /\ UNCHANGED <<docHead, fn, arg>>
  /\ UNCHANGED popupVars
  /\ UNCHANGED passVars
  /\ UNCHANGED tabVars

ApplySafeMarkdownUrl ==
  /\ fn = "safeMarkdownUrl"
  /\ Len(outs) < MaxApply
  /\ outs' = Append(outs, safeMarkdownUrl(Operand))
  /\ UNCHANGED <<docHead, fn, arg>>
  /\ UNCHANGED popupVars
  /\ UNCHANGED passVars
  /\ UNCHANGED tabVars

ApplyParseSrcset ==
  /\ fn = "parseSrcset"
  /\ outs = <<>>
  /\ outs' = <<parseSrcset(arg.text)>>
  /\ UNCHANGED <<docHead, fn, arg>>
  /\ UNCHANGED popupVars
  /\ UNCHANGED passVars
  /\ UNCHANGED tabVars

HelperNext ==
  \/ ApplyResolveUrl
  \/ ApplySafeMarkdownUrl
  \/ ApplyParseSrcset

HelperSpec == HelperInit /\ [][HelperNext]_vars

\* ----------------------------------------------------------------- claims

Done == pc = "done"

\* The element the extraction started from
Content == NodeAt(page, root)

\* How many times lexeme t occurs in s
Occurs(s, t) == Cardinality({i \in 1..Len(s) : s[i] = t})

\* The position of lexeme t in s, where it occurs once
Pos(s, t) == CHOOSE i \in 1..Len(s) : s[i] = t

\* The first position of lexeme t in s
FirstPos(s, t) ==
  LET at == {i \in 1..Len(s) : s[i] = t}
  IN  CHOOSE i \in at : \A j \in at : i <= j

HasSub(s, sub) ==
  \E i \in 0..(Len(s) - Len(sub)) : SubSeq(s, i + 1, i + Len(sub)) = sub

Elements(n) == SelectSeq(Descendants(n), IsElement)

\* The lexemes of the text below n
LabelsIn(n) == {textContent(n)[i] : i \in 1..Len(textContent(n))} \ {" "}

\* The lexemes of the text nodes that are children of n
OwnLabels(n) ==
  {n.kids[i].text[1] : i \in {j \in 1..Len(n.kids) : n.kids[j].tag = "#text"}}

\* The target of the link is one the transcoder accepts
Accepted(a) ==
  /\ Prop(a, "href") # <<>>
  /\ ~StartsWith(Prop(a, "href"), <<"#">>)
  /\ ~StartsWith(Prop(a, "href"), <<"javascript:">>)

\* The output holds a Markdown link to the target of a
LinkEmitted(a) ==
  HasSub(raw, <<"]", "(">> \o safeMarkdownUrl(resolveUrl(Prop(a, "href"))) \o <<")">>)

\* C1, as the specification states it: after an extraction, linkCount is the
\* number of anchor elements for which a Markdown link was emitted.
LinkCountIsEmittedAnchors ==
  Done =>
    LET anchors == querySelectorAll(Content, {"a"})
    IN  result.linkCount =
          Cardinality({i \in 1..Len(anchors) : LinkEmitted(anchors[i])})

\* C2, as the specification states it: with links included, an accepted link
\* whose only content is an img element emits no [text](url) link.
ImageOnlyLinkEmitsImage ==
  Done /\ options.includeLinks =>
    LET anchors == querySelectorAll(Content, {"a"})
    IN  \A i \in 1..Len(anchors) :
          ( /\ Accepted(anchors[i])
            /\ Len(anchors[i].kids) = 1
            /\ anchors[i].kids[1].tag = "img" )
          => ~LinkEmitted(anchors[i])

\* Every source of the img is absent or detected as a placeholder
AllSourcesDead(img) ==
  /\ isPlaceholderSrc(Prop(img, "currentSrc"))
  /\ isPlaceholderSrc(Prop(img, "src"))
  /\ \A k \in 1..Len(LazyAttrs) : isPlaceholderSrc(Prop(img, LazyAttrs[k]))
  /\ \A a \in {"srcset", "data-srcset"} : isPlaceholderSrc(parseSrcset(Prop(img, a)))

\* The only img of the page, when it has exactly one
OnlyImg == querySelectorAll(page, {"img"})[1]

HasOnlyImg == Len(querySelectorAll(page, {"img"})) = 1

NoImageEmitted == Occurs(raw, "!") = 0 /\ result.imageCount = 0

\* C3, as the specification states it: with images included, a page whose
\* only img has every source absent or a placeholder emits no image reference.
DeadImgEmitsNothing ==
  Done /\ options.includeImages /\ HasOnlyImg /\ AllSourcesDead(OnlyImg)
    => NoImageEmitted

\* The src attribute is absent or a data: URI
SrcAbsentOrData(img) ==
  Prop(img, "src") = <<>> \/ StartsWith(Prop(img, "src"), <<"data:">>)

\* C3, amended: with images included, a page whose only img has every source
\* absent or a placeholder emits no image reference when the src attribute is
\* absent or a data: URI; otherwise it emits the resolved src attribute once.
DeadImgFallsBackToSrc ==
  Done /\ options.includeImages /\ HasOnlyImg /\ AllSourcesDead(OnlyImg)
    => IF SrcAbsentOrData(OnlyImg) THEN NoImageEmitted
       ELSE /\ HasSub(raw, <<"]", "(">>
                         \o safeMarkdownUrl(resolveUrl(Prop(OnlyImg, "src"))) \o <<")">>)
            /\ Occurs(raw, "!") = 1
            /\ result.imageCount = 1

\* C3's case: an extraction with images of a page whose only img has a small
\* data: URI as src and no other source, and nothing was emitted for it
DeadDataImgExtracted ==
  /\ Done /\ options.includeImages /\ HasOnlyImg /\ AllSourcesDead(OnlyImg)
  /\ StartsWith(Prop(OnlyImg, "src"), <<"data:">>)
  /\ NoImageEmitted

\* The cell holds one text node and nothing else
PlainCell(cell) == Len(cell.kids) = 1 /\ cell.kids[1].tag = "#text"

CellLabel(cell) == cell.kids[1].text[1]

CellsOf(n) == querySelectorAll(n, {"td", "th"})

\* C4, as the specification states it: with tables included, the text of each
\* cell of a thead appears exactly once in the output.
HeaderCellsAppearOnce ==
  Done /\ options.includeTables =>
    LET tables == querySelectorAll(Content, {"table"})
    IN  \A i \in 1..Len(tables) :
          querySelector(tables[i], {"thead"}) # None =>
            LET cells == CellsOf(querySelector(tables[i], {"thead"}))
            IN  \A k \in 1..Len(cells) :
                  PlainCell(cells[k]) => Occurs(raw, CellLabel(cells[k])) = 1

\* The page is one table without a thead whose first row has no th, every
\* cell holding its own text
HeaderlessTable ==
  /\ root = <<>>
  /\ Len(page.kids) = 1
  /\ page.kids[1].tag = "table"
  /\ querySelector(page.kids[1], {"thead"}) = None
  /\ querySelectorAll(page.kids[1], {"tr"}) # <<>>
  /\ querySelector(querySelectorAll(page.kids[1], {"tr"})[1], {"th"}) = None
  /\ \A k \in 1..Len(CellsOf(page.kids[1])) : PlainCell(CellsOf(page.kids[1])[k])

\* C5: with tables included, a table with no thead and no th in its first
\* row has the cells of its first row in the header line and nowhere else,
\* the cells of the other rows once each below the separator line; and
\* when the first row has no cell the table transcodes to the empty string.
FirstRowPromoted ==
  Done /\ options.includeTables /\ HeaderlessTable =>
    LET trs == querySelectorAll(page.kids[1], {"tr"})
        first == CellsOf(trs[1])
    IN  IF first = <<>> THEN raw = <<>>
        ELSE /\ \A k \in 1..Len(first) :
                  /\ Occurs(raw, CellLabel(first[k])) = 1
                  /\ Pos(raw, CellLabel(first[k])) < FirstPos(raw, "-")
             /\ \A r \in 2..Len(trs) : \A k \in 1..Len(CellsOf(trs[r])) :
                  /\ Occurs(raw, CellLabel(CellsOf(trs[r])[k])) = 1
                  /\ Pos(raw, CellLabel(CellsOf(trs[r])[k])) > FirstPos(raw, "-")

\* C5's case: a table without thead and th, of two rows, the first of two
\* cells, has been transcoded
HeaderlessTableExtracted ==
  /\ Done /\ options.includeTables /\ HeaderlessTable
  /\ Len(querySelectorAll(page.kids[1], {"tr"})) >= 2
  /\ Len(CellsOf(querySelectorAll(page.kids[1], {"tr"})[1])) = 2
  /\ raw # <<>>

\* The paths, among paths, of the li elements that hold both a ul and an ol
ItemsWithBoth(paths) ==
  {path \in paths :
     LET n == NodeAt(page, path)
     IN  n.tag = "li" /\ ScopeChild(n, "ul") # None /\ ScopeChild(n, "ol") # None}

\* The paths of the elements of the page, as a set
PathSet ==
  UNION {{paths[i] : i \in 1..Len(paths)} : paths \in {ElementPaths(page)}}

\* The depth at which the list of the li at path is formatted: the number of
\* li elements above it
DepthOf(path) ==
  Cardinality({k \in 1..(Len(path) - 1) : NodeAt(page, SubSeq(path, 1, k)).tag = "li"})

\* The start of the line of the output that holds position i
LineStart(i) ==
  LET breaks == {k \in 1..(i - 1) : raw[k] = "\n"}
  IN  IF breaks = {} THEN 1 ELSE 1 + CHOOSE k \in breaks : \A m \in breaks : m <= k

\* The number of spaces at the start of the line that holds position i
IndentAt(i) ==
  LET inked == {j \in LineStart(i)..i : raw[j] # " "}
  IN  (CHOOSE j \in inked : \A m \in inked : j <= m) - LineStart(i)

\* The items of the list: its li children
ItemsOf(list) == SelectSeq(list.kids, LAMBDA n : n.tag = "li")

\* C6: a list item holding both a nested ul and a nested ol emits its own
\* text first, then on later lines the ul's items, then the ol's items, and
\* the line of every item of the two nested lists starts with 2 * (depth + 1)
\* spaces.
NestedListsInOrder ==
  Done /\ root = <<>> =>
    \A path \in ItemsWithBoth(PathSet) :
      LET li == NodeAt(page, path)
          ul == ScopeChild(li, "ul")
          ol == ScopeChild(li, "ol")
          nested == ItemsOf(ul) \o ItemsOf(ol)
      IN  /\ \A x \in LabelsIn(li) : Occurs(raw, x) = 1
          /\ \A a \in OwnLabels(li) : \A u \in LabelsIn(ul) :
                Pos(raw, a) < LineStart(Pos(raw, u))
          /\ \A u \in LabelsIn(ul) : \A o \in LabelsIn(ol) :
                Pos(raw, u) < LineStart(Pos(raw, o))
          /\ \A k \in 1..Len(nested) : \A x \in OwnLabels(nested[k]) :
                IndentAt(Pos(raw, x)) = 2 * (DepthOf(path) + 1)

\* C6's case: an item below another item holds an ol followed by a ul, and
\* the list has been transcoded
NestedBothExtracted ==
  /\ Done /\ root = <<>>
  /\ \E path \in ItemsWithBoth(PathSet) :
       /\ DepthOf(path) >= 1
       /\ NodeAt(page, path).kids[2].tag = "ol"
       /\ \A x \in LabelsIn(NodeAt(page, path)) : Occurs(raw, x) = 1

\* The page is one element with a noisy class or id and no img, its trimmed
\* text of a given length
LoneNoisy ==
  /\ Len(page.kids) = 1
  /\ IsElement(page.kids[1])
  /\ IsNoisy(page.kids[1])
  /\ ~IsHiddenStyle(page.kids[1])
  /\ page.kids[1].tag \notin SKIP_TAGS

NoisyLen == StrLen(Trim(textContent(page.kids[1])))

FilteredLeavesNoTrace ==
  Done =>
    LET els == Elements(Content)
    IN  \A i \in 1..Len(els) :
          PreFiltered(els[i]) =>
            /\ \A x \in LabelsIn(els[i]) : Occurs(raw, x) = 0
            /\ (els[i].tag = "img" /\ Prop(els[i], "src") # <<>>)
                 => ~HasSub(raw, safeMarkdownUrl(resolveUrl(Prop(els[i], "src"))))

\* The position in document order of the element at path; paths holds the
\* paths of the elements of the page in that order
DocIndex(paths, path) == CHOOSE i \in 1..Len(paths) : paths[i] = path

\* The first selector of sels that the element at path matches
SelIndex(path, sels) ==
  CHOOSE k \in 1..Len(sels) :
    /\ Matches(page, path, sels[k])
    /\ \A j \in 1..(k - 1) : ~Matches(page, path, sels[j])

\* The elements the scoring tier may return: they hold at least 200
\* characters and match a candidate selector
Qualified(paths) ==
  {path \in {paths[i] : i \in 1..Len(paths)} :
     /\ TextLen(NodeAt(page, path)) >= ScoringMinText
     /\ \E k \in 1..Len(candidates) : Matches(page, path, candidates[k])}

\* Those of maximal score
TopScored(paths) ==
  \* the qualified elements are computed once
  LET top(qual) == {path \in qual :
                      \A q \in qual : Score(NodeAt(page, q)) <= Score(NodeAt(page, path))}
  IN  UNION {top(qual) : qual \in {Qualified(paths)}}

\* The matches of the k-th priority selector, in document order
PriorityMatches(paths, k) ==
  SelectSeq(paths, LAMBDA path : Matches(page, path, prioritySelectors[k]))

IsLong(path) == TextLen(NodeAt(page, path)) > PriorityMinText

\* The first match of the k-th priority selector exists and is long enough
FirstMatchLong(paths, k) ==
  \E all \in {PriorityMatches(paths, k)} : all # <<>> /\ IsLong(all[1])

\* Some match of the k-th priority selector is long enough
SomeMatchLong(paths, k) ==
  \E all \in {PriorityMatches(paths, k)} : \E i \in 1..Len(all) : IsLong(all[i])

\* The scoring tier decides: no priority selector hits, a candidate qualifies
ScoringDecides(paths) ==
  /\ \A k \in 1..Len(prioritySelectors) : ~FirstMatchLong(paths, k)
  /\ Qualified(paths) # {}

\* C9, as the specification states it: when the scoring tier decides, the
\* root is the first element in document order among those of maximal score.
ScoringTieByDocumentOrder ==
  Done =>
    \A paths \in {ElementPaths(page)} :
      ScoringDecides(paths) =>
        \A top \in {TopScored(paths)} :
          /\ root \in top
          /\ \A q \in top : DocIndex(paths, root) <= DocIndex(paths, q)

\* The scoring loop meets p before q: p's first selector comes earlier in
\* the candidate list, or it is the same and p comes first in the document
MetBefore(paths, p, q) ==
  \/ SelIndex(p, candidates) < SelIndex(q, candidates)
  \/ /\ SelIndex(p, candidates) = SelIndex(q, candidates)
     /\ DocIndex(paths, p) < DocIndex(paths, q)

\* The root is, among the elements of maximal score, the one met first
RootMetFirst(paths) ==
  \A top \in {TopScored(paths)} :
    /\ root \in top
    /\ \A q \in top \ {root} : MetBefore(paths, root, q)

\* C9, amended: when the scoring tier decides, the root is, among the
\* elements of maximal score, the one the loop meets first: selectors in the
\* order of the candidate list, the matches of one selector in document order.
ScoringTieByEncounterOrder ==
  Done =>
    \A paths \in {ElementPaths(page)} : ScoringDecides(paths) => RootMetFirst(paths)

\* C9's case: the scoring tier has decided between two elements of maximal
\* score, and the one returned is not the first of them in the document
ScoringTieAgainstDocumentOrder ==
  /\ Done
  /\ \E paths \in {ElementPaths(page)} :
       /\ ScoringDecides(paths)
       /\ \E q \in TopScored(paths) : DocIndex(paths, q) < DocIndex(paths, root)

\* C10, as the specification states it: when some match of a priority
\* selector is long enough, the root is the first long-enough match, in
\* document order, of the first selector that has one.
PriorityFirstLongMatch ==
  Done =>
    \A paths \in {ElementPaths(page)} :
      \A hits \in {SelectSeq([k \in 1..Len(prioritySelectors) |-> k],
                     LAMBDA k : SomeMatchLong(paths, k))} :
        hits # <<>> =>
          root = SelectSeq(PriorityMatches(paths, hits[1]), IsLong)[1]

\* C10, amended: the priority tier looks at the first match of each selector
\* only.  The root is the first match of the first selector whose first match
\* is long enough; when no selector has such a first match the priority tier
\* gives nothing, whatever the later matches, and the scoring tier decides.
PriorityFirstMatchOnly ==
  Done =>
    \A paths \in {ElementPaths(page)} :
      \A hits \in {SelectSeq([k \in 1..Len(prioritySelectors) |-> k],
                     LAMBDA k : FirstMatchLong(paths, k))} :
        IF hits # <<>> THEN root = PriorityMatches(paths, hits[1])[1]
        ELSE Qualified(paths) # {} => RootMetFirst(paths)

\* C10's case: the first match of a priority selector is too short, a later
\* match of the same selector is long enough, and the root is another element
ShortFirstMatchHidesLaterMatch ==
  /\ Done
  /\ \E paths \in {ElementPaths(page)} : \E k \in 1..Len(prioritySelectors) :
       \E all \in {PriorityMatches(paths, k)} :
         /\ Len(all) >= 2
         /\ ~IsLong(all[1])
         /\ IsLong(all[2])
         /\ root # all[2]

\* --- C11: resolveUrl applied to its own result

\* C11, resolveUrl is idempotent: every application of resolveUrl to what
\* resolveUrl returned gives that string again, for every input
ResolveIdempotent ==
  fn = "resolveUrl" => \A i \in 2..Len(outs) : outs[i] = outs[i - 1]

\* A padded relative URL has been resolved to another string, and resolved again
ResolvedTwice ==
  /\ fn = "resolveUrl"
  /\ Len(outs) = 2
  /\ arg.text = <<" ", "a", " ", "b">>
  /\ outs[1] = <<"https:", "//", "site.example", "/", "a", "%", "2", "0", "b">>

\* --- C12: safeMarkdownUrl

\* The percent code of a character safeMarkdownUrl replaces
PercentCode(c) ==
  CASE c = "(" -> <<"%", "2", "8">>
    [] c = ")" -> <<"%", "2", "9">>
    [] c = " " -> <<"%", "2", "0">>
    [] c = "[" -> <<"%", "5", "B">>
    [] c = "]" -> <<"%", "5", "D">>
    [] OTHER -> <<c>>

\* C12, safeMarkdownUrl never double-encodes: in its output each of ( ) space
\* [ ] stands as its own percent code and every other character, '%'
\* included, as itself; none of the five characters is left; and a second
\* application changes nothing
EscapeNeverDoubleEncodes ==
  fn = "safeMarkdownUrl" /\ outs # <<>> =>
    /\ outs[1] = Flatten([i \in 1..Len(arg.text) |-> PercentCode(arg.text[i])])
    /\ \A i \in 1..Len(outs[1]) : outs[1][i] \notin {"(", ")", " ", "[", "]"}
    /\ \A i \in 2..Len(outs) : outs[i] = outs[i - 1]

\* A string with a parenthesis and a percent code has been escaped twice
EscapedTwice ==
  /\ fn = "safeMarkdownUrl"
  /\ Len(outs) = 2
  /\ arg.text = <<"(", "%", "2">>
  /\ outs[1] = <<"%", "2", "8", "%", "2">>

\* --- C13: the cleanup of every produced document

\* s holds a run of four or more newlines
HasLongNewlineRun(s) ==
  \E i \in 1..(Len(s) - 3) : \A j \in i..(i + 3) : s[j] = "\n"

\* A line of s ends in a space or a tab
HasTrailingBlank(s) ==
  \E i \in 1..Len(s) : s[i] \in {" ", "\t"} /\ IsLineEnd(s, i + 1)

\* A line of s holds whitespace and nothing else
HasBlankLine(s) ==
  \E b \in 1..Len(s) : \E e \in b..Len(s) :
    /\ IsLineStart(s, b)
    /\ IsLineEnd(s, e + 1)
    /\ \A j \in b..e : IsWs(s[j]) /\ s[j] # "\n"

Cleaned(s) ==
  /\ ~HasLongNewlineRun(s)
  /\ ~HasTrailingBlank(s)
  /\ ~HasBlankLine(s)
  /\ s = Trim(s)

\* C13, the body of every produced document, by extract or by a selection
\* click, has no run of four or more newlines, no line ending in a space or
\* a tab, no line of whitespace only and no leading or trailing whitespace
BodyFullyCleaned == root # NoElement => Cleaned(body)


\* --- C14: the endings of a selection session

\* C14, every ending of a selection session stores one result in the polled
\* location: the Escape key, and a click with no element hovered, store a
\* marker with cancelled = true; a click on a hovered element stores an
\* Extraction Result without the flag, whatever its document; and a poll
\* tick that finds a result reports a cancellation exactly for the marker
\* and shows the document otherwise
EndingsAreTold ==
  [][ /\ EscapeKey => extractorResult'.set /\ extractorResult'.cancelled
      /\ ClickOverlay =>
           /\ extractorResult'.set
           /\ extractorResult'.cancelled <=> overlays[Len(overlays)].cur = NoElement
           /\ ~extractorResult'.cancelled =>
                extractorResult'.doc.charCount = StrLen(extractorResult'.doc.markdown)
      /\ \A s \in polls :
           PollTick(s, FALSE) /\ extractorResult.set =>
             /\ s \notin polls'
             /\ status' = IF extractorResult.cancelled THEN "cancelled" ELSE "shown"
             /\ ~extractorResult.cancelled => result' = extractorResult.doc
    ]_vars

\* A click on a hovered element has stored an empty document and the poll
\* has shown it
EmptyExtractionShown ==
  /\ status = "shown"
  /\ extractorResult.set
  /\ ~extractorResult.cancelled
  /\ extractorResult.doc.markdown = <<>>
  /\ result = extractorResult.doc


\* --- C15: the counters of one pass

\* The counters of ctx are those of before or greater, its options the same
Advanced(before, ctx) ==
  /\ ctx.imageCount >= before.imageCount
  /\ ctx.linkCount >= before.linkCount
  /\ [ctx EXCEPT !.imageCount = 0, !.linkCount = 0]
       = [before EXCEPT !.imageCount = 0, !.linkCount = 0]

\* C15, during one pass imageCount and linkCount never decrease: the
\* Conversion Context is created with both at 0, and every step of the
\* transcoder over an element of the page, entered with the counters at 0 or
\* already advanced, leaves each counter as it was or greater; the counts of
\* the result are those the pass ended with
CountersNeverDecrease ==
  pc = "done" =>
    /\ NewCtx(options).imageCount = 0
    /\ NewCtx(options).linkCount = 0
    /\ \A i \in 1..Len(Elements(page)) :
         \A c \in {NewCtx(options),
                   [NewCtx(options) EXCEPT !.imageCount = 1, !.linkCount = 2]} :
           /\ Advanced(c, processElement(Elements(page)[i], c).ctx)
           /\ Advanced(c, htmlToMarkdown(Elements(page)[i], c).ctx)
    /\ result.imageCount = htmlToMarkdown(NodeAt(page, root), NewCtx(options)).ctx.imageCount
    /\ result.linkCount = htmlToMarkdown(NodeAt(page, root), NewCtx(options)).ctx.linkCount

\* A pass has counted an image and a link
BothCounted == pc = "done" /\ result.imageCount >= 1 /\ result.linkCount >= 1


\* --- C16: a document without the header

Dashes == <<"-", "-", "-">>

\* A line of s, from position i, is made of three dashes
DashLineAt(s, i) ==
  /\ IsLineStart(s, i)
  /\ i + 2 <= Len(s)
  /\ SubSeq(s, i, i + 2) = Dashes
  /\ IsLineEnd(s, i + 3)

\* s opens with a line of three dashes that a later such line closes
HasLeadingDashBlock(s) ==
  DashLineAt(s, 1) /\ \E i \in 2..Len(s) : DashLineAt(s, i)

LongEnough(doc, path) ==
  StrLen(Trim(textContent(NodeAt(doc, path)))) >= SelectionMinText

\* path with its last k steps removed
Up(path, k) == SubSeq(path, 1, Len(path) - k)

\* C17, a selection click on a hovered element of 30 characters or more
\* transcodes that element, and on a shorter one its nearest ancestor of 30
\* characters or more
WalksToLongAncestor ==
  [][ ClickOverlay /\ overlays[Len(overlays)].cur # NoElement =>
        LET el == overlays[Len(overlays)].cur
        IN  IF LongEnough(page', el) THEN root' = el
            ELSE \E k \in 1..Len(el) :
                   /\ root' = Up(el, k)
                   /\ LongEnough(page', root')
                   /\ \A j \in 1..(k - 1) : ~LongEnough(page', Up(el, j))
    ]_vars

\* C17 amended: the element transcoded is the hovered element or an ancestor
\* of it below document.body; every element from the hovered one up to it,
\* itself excluded, is shorter than 30 characters; and it is itself of 30
\* characters or more unless it is a child of document.body
WalksBelowBody ==
  [][ ClickOverlay /\ overlays[Len(overlays)].cur # NoElement =>
        LET el == overlays[Len(overlays)].cur
        IN  \E k \in 0..(Len(el) - 1) :
              /\ root' = Up(el, k)
              /\ \A j \in 0..(k - 1) : ~LongEnough(page', Up(el, j))
              /\ LongEnough(page', root') \/ Len(root') = 1
    ]_vars

\* A selection click has transcoded a child of document.body that holds
\* elements and is shorter than 30 characters, as is then all it holds
ShortTargetTranscoded ==
  /\ extractorResult.set
  /\ ~extractorResult.cancelled
  /\ root # NoElement
  /\ Len(root) = 1
  /\ root[1] <= OwnCount(page, Len(overlays))
  /\ Elements(NodeAt(page, root)) # <<>>
  /\ ~LongEnough(page, root)


\* --- C18: one line for each list item

\* The lists of the page
ListsOf(doc) == SelectSeq(Elements(doc), LAMBDA n : n.tag \in {"ul", "ol"})

\* The own content of the item, as line 526 trims it
OwnContent(li, ctx) == Trim(ItemTextFrom(li.kids, 1, ctx).s)

\* C18, formatList emits one line for each li child of a list: for a list
\* without nested lists the output is, item after item, the prefix ('N. '
\* with the item's position in an ordered list, '- ' in an unordered one),
\* the item's trimmed content and a newline, and the content holds no
\* newline whatever the item holds
OneLineForEachItem ==
  Done =>
    \A k \in 1..Len(ListsOf(page)) :
      LET list == ListsOf(page)[k]
          out == processListItems(list, NewCtx(options), list.tag, 0).s
      IN  ListsOf(list) = <<>> =>
            /\ Occurs(out, "\n") = Len(ItemsOf(list))
            /\ \A i \in 1..Len(ItemsOf(list)) :
                 Occurs(OwnContent(ItemsOf(list)[i], NewCtx(options)), "\n") = 0


\* --- C19: parseSrcset

\* The width a candidate of the given kind stands for
KindWidth(kind) ==
  CASE kind = "100w" -> 100
    [] kind = "200w" -> 200
    [] kind = "1x" -> 1000
    [] kind = "2x" -> 2000
    [] OTHER -> 0

\* The candidates that have a URL
WithUrl(kinds) == {i \in 1..Len(kinds) : kinds[i] # "empty"}

\* The widest candidates with a URL
Widest(kinds) ==
  {i \in WithUrl(kinds) : \A j \in WithUrl(kinds) : KindWidth(kinds[j]) <= KindWidth(kinds[i])}

First(S) == CHOOSE i \in S : \A j \in S : i <= j

\* C19, parseSrcset returns the URL of the first candidate whose width is the
\* maximum over the candidates; with no positive width that is the first
\* candidate that has a URL, and '' when none has
SrcsetFirstWidest ==
  fn = "parseSrcset" /\ outs # <<>> =>
    outs[1] = IF WithUrl(arg.kinds) = {} THEN <<>>
              ELSE CandidateUrl(First(Widest(arg.kinds)))

\* parseSrcset has run on a set whose widest width is held by two candidates
\* after a narrower one, and on a set without any width
SrcsetTieDecided ==
  /\ fn = "parseSrcset"
  /\ outs # <<>>
  /\ arg.kinds = <<"100w", "2x", "2x">>
  /\ outs[1] = CandidateUrl(2)

\* --- C20: the Extract button during a selection poll

\* C20, the Extract button stays disabled for as long as a selection poll
\* is running, so that at most one poll is active at any time, whatever the
\* order of Extract clicks, poll ticks, results and 30-second timeouts
ButtonDisabledWhilePolling ==
  /\ polls # {} => disabled
  /\ Cardinality(polls) <= 1

\* --- C21: the overlays attached to the page

\* The selection overlays among the children of document.body
AttachedOverlays(doc) ==
  SelectSeq(doc.kids, LAMBDA n : Prop(n, "id") = <<"__extractor_overlay__">>)

\* C21, at most one selection overlay is attached to the page at any time,
\* and once a session has ended by a click or by Escape no later event
\* overwrites the result it stored: a stored result changes only when the
\* next selection start clears it
OneOverlayAndResultKept ==
  /\ [](Len(AttachedOverlays(page)) <= 1)
  /\ [][ extractorResult.set =>
           extractorResult' = extractorResult \/ StartSelection ]_vars


\* --- C22: imageCount and the image references of the document

\* How many image references s holds: the places where `![` stands
ImageRefs(s) == Cardinality({i \in 1..(Len(s) - 1) : s[i] = "!" /\ s[i + 1] = "["})

\* C22, the imageCount of an Extraction Result is the number of image
\* references in the body of the returned document, and with includeImages
\* off it is 0 and the document holds no image reference
ImageCountIsEmittedImages ==
  Done =>
    /\ result.imageCount = ImageRefs(body)
    /\ ~options.includeImages => result.imageCount = 0 /\ ImageRefs(body) = 0


====
